---- MODULE Spec2Model ----
(***************************************************************************)
(* Strategy selection and transfer execution engine of hotsweep            *)
(* (packages/core/src/transfer, packages/core/src/address).                *)
(*                                                                         *)
(* One executeTransfer call is followed from its synchronous resolution    *)
(* phase through the per-address loop; every await of the code is one      *)
(* step.  The chain client is modelled by the state of one chain with one  *)
(* ERC-20 contract: native and token balances, gas price, the token's      *)
(* capabilities, its permit nonces and the list of mined transactions.     *)
(***************************************************************************)
EXTENDS Integers, Sequences, FiniteSets, TLC

(***************************************************************************)
(* Bounds of the model                                                     *)
(***************************************************************************)
MaxIndex == 1        \* HD indices 0..MaxIndex appear in from-specifications
MaxSegs == 2         \* comma-separated segments of a from-specification
MaxBal == 2          \* token balances 0..MaxBal, explicit amounts 0..MaxBal
MaxNativeK == 3      \* native balances are k * 21000 wei, k in 0..MaxNativeK
MaxGasPrice == 1     \* gas price 1..MaxGasPrice wei
MaxFaults == 1       \* transport faults injected into one request
MaxCallers == 2      \* concurrent callers of the exported detectStrategy
MaxUnits == 3        \* source addresses of one request in the loop model
MaxParallel == 2     \* options.parallel is absent or 1..MaxParallel
MaxBatch == 2        \* items of one batch of the contract
MaxHold == 2         \* ETH and tokens the contract and the user start with

(***************************************************************************)
(* Program constants                                                       *)
(***************************************************************************)
estimatedGas == 21000
DefaultDecimals == 18
DryRunHash == 0                      \* tx: { hash: "0x" }
NATIVE_TOKEN_ADDRESS == "0xEeee"
TokenAddress == "0xT0ken"            \* the ERC-20 contract of the model
HotWallet == "0xHot"                 \* wallets["hot-wallet"].address
Relayer == "0xRelay"                 \* an account outside the HD tree
Huge == 2^30                         \* stands for any amount above every balance

CHAIN_NOT_FOUND == "ERR_3001"
CHAIN_DISABLED == "ERR_3002"
TOKEN_NOT_FOUND == "ERR_4001"
WALLET_KEY_NOT_FOUND == "ERR_2003"
TRANSFER_INSUFFICIENT_BALANCE == "ERR_5001"
TRANSFER_FAILED == "ERR_5003"
STRATEGY_UNSUPPORTED == "ERR_6001"
ADDRESS_RANGE_INVALID == "ERR_9002"
ADDRESS_LABEL_NOT_FOUND == "ERR_9004"
VALIDATION_ERROR == "ERR_0002"

SweepStrategy == {"auto", "eip7702", "eip2612", "eip3009", "legacy"}

(***************************************************************************)
(* Addresses, identifiers                                                  *)
(***************************************************************************)
\* generateAddress(addressContext, index).address: one address per index
generateAddress(index) == "0xhd" \o ToString(index)

Indices == 0..MaxIndex
Sources == {generateAddress(i) : i \in Indices}
Addresses == Sources \cup {HotWallet, Relayer}

\* config.wallets: label -> address
wallets == [l \in {"hot-wallet", "deployer"} |->
              IF l = "hot-wallet" THEN HotWallet ELSE generateAddress(0)]

\* identifiers are the textual forms: String(index), the address text, a label
IdDec(n) == [form |-> "dec", n |-> n, s |-> ""]
IdText(s) == [form |-> "text", n |-> 0, s |-> s]

\* parseInt(identifier, 10): a decimal string gives its number; an address
\* "0x..." parses its leading "0" and stops at "x"; a label gives NaN (-1).
NaN == 0 - 1
parseInt(id) ==
  IF id.form = "dec" THEN id.n
  ELSE IF id.s \in Addresses THEN 0
  ELSE NaN

(***************************************************************************)
(* Sequence helpers                                                        *)
(***************************************************************************)
Range(s) == {s[i] : i \in DOMAIN s}

Min(S) == CHOOSE x \in S : \A y \in S : x <= y

RECURSIVE SortSet(_)
SortSet(S) == IF S = {} THEN <<>> ELSE <<Min(S)>> \o SortSet(S \ {Min(S)})

\* [...new Set(xs)].sort((a, b) => a - b)
SortedUnique(xs) == SortSet(Range(xs))

RECURSIVE FromTo(_, _)
FromTo(a, b) == IF a > b THEN <<>> ELSE <<a>> \o FromTo(a + 1, b)

(***************************************************************************)
(* Address specification parser (address/parser.ts)                        *)
(*                                                                         *)
(* The text of a specification is kept in its lexical structure: a         *)
(* 20-byte hex string, a word, or a string of digits, commas and dashes    *)
(* split at its commas into segments "n" or "lo-hi".                       *)
(***************************************************************************)
\* A segment keeps what parseInt makes of its first two dash-separated
\* pieces (lo, hi; NaN when a piece does not begin with a digit), whether it
\* has a dash, whether its pieces are digits and nothing else (exact), and
\* whether more pieces follow the second (more), as in "1-2-3".
SegText(lo, hi, dash, exact, more) ==
  [lo |-> lo, hi |-> hi, dash |-> dash, exact |-> exact, more |-> more]
Seg(lo, hi, dash) == SegText(lo, hi, dash, TRUE, FALSE)
TextHex(a) == [shape |-> "hex", s |-> a, segs |-> <<>>]
TextWord(w) == [shape |-> "word", s |-> w, segs |-> <<>>]
TextList(segs) == [shape |-> "list", s |-> "", segs |-> segs]

AddressSpec(type, s, n, xs, segs) ==
  [type |-> type, s |-> s, n |-> n, xs |-> xs, segs |-> segs]

Ok(v) == [ok |-> TRUE, value |-> v, code |-> "", message |-> ""]
Err(code, message) == [ok |-> FALSE, value |-> <<>>, code |-> code, message |-> message]

\* a value given as an AddressSpec object instead of a text
TextObject(spec) == [shape |-> "object", s |-> "", segs |-> <<>>, spec |-> spec]

\* String(value): a text is itself, an object is "[object Object]"
String(value) ==
  IF value.shape = "object" THEN TextWord("[object Object]") ELSE value

parseAddressSpec(text) ==
  IF text.shape = "object" THEN text.spec
  ELSE IF text.shape = "hex" THEN AddressSpec("address", text.s, 0, <<>>, <<>>)
  ELSE IF text.shape = "list" /\ Len(text.segs) = 1 /\ ~text.segs[1].dash
    THEN AddressSpec("index", "", text.segs[1].lo, <<>>, <<>>)
  ELSE IF text.shape = "list" /\ \A i \in DOMAIN text.segs : ~text.segs[i].dash
    THEN AddressSpec("indices", "", 0,
                     [i \in DOMAIN text.segs |-> text.segs[i].lo], <<>>)
  ELSE IF text.shape = "list"
    THEN AddressSpec("range", "", 0, <<>>, text.segs)
  ELSE AddressSpec("label", text.s, 0, <<>>, <<>>)

\* the indices pushed by the loop of parseRange, before the final Set/sort
RECURSIVE rangePushed(_)
rangePushed(segs) ==
  IF segs = <<>> THEN <<>>
  ELSE (IF Head(segs).dash THEN FromTo(Head(segs).lo, Head(segs).hi)
        ELSE <<Head(segs).lo>>) \o rangePushed(Tail(segs))

parseRange(segs) ==
  IF \E i \in DOMAIN segs : segs[i].lo = NaN \/ (segs[i].dash /\ segs[i].hi = NaN)
  THEN Err(ADDRESS_RANGE_INVALID, "Invalid range part")
  ELSE IF \E i \in DOMAIN segs : segs[i].dash /\ segs[i].lo > segs[i].hi
  THEN Err(ADDRESS_RANGE_INVALID, "Invalid range: start > end")
  ELSE Ok(SortedUnique(rangePushed(segs)))

resolveToIndices(spec) ==
  IF spec.type = "index" THEN Ok(<<spec.n>>)
  ELSE IF spec.type = "indices" THEN Ok(SortedUnique(spec.xs))
  ELSE IF spec.type = "range" THEN parseRange(spec.segs)
  ELSE Err(VALIDATION_ERROR, "Cannot resolve to indices")

Resolved(id, a) == [identifier |-> id, address |-> a]

indexEntries(xs) == [i \in DOMAIN xs |-> Resolved(IdDec(xs[i]), generateAddress(xs[i]))]

\* variant: a label that is not in the registry resolves to the first HD address
resolveToAddressesDefaultWallet(spec, hasResolver) ==
  IF spec.type = "address" THEN Ok(<<Resolved(IdText(spec.s), spec.s)>>)
  ELSE IF spec.type = "label" THEN
    IF spec.s \notin DOMAIN wallets
    THEN Ok(<<Resolved(IdText(spec.s), generateAddress(0))>>)
    ELSE Ok(<<Resolved(IdText(spec.s), wallets[spec.s])>>)
  ELSE IF ~hasResolver THEN Err(VALIDATION_ERROR, "Address resolver required")
  ELSE IF spec.type = "index" THEN Ok(indexEntries(<<spec.n>>))
  ELSE IF spec.type = "indices" THEN Ok(indexEntries(spec.xs))
  ELSE LET r == parseRange(spec.segs) IN
       IF r.ok THEN Ok(indexEntries(r.value)) ELSE r

\* variant: without a resolver an index specification resolves to nothing
resolveToAddressesSilent(spec, hasResolver) ==
  IF spec.type = "address" THEN Ok(<<Resolved(IdText(spec.s), spec.s)>>)
  ELSE IF spec.type = "label" THEN
    IF spec.s \notin DOMAIN wallets
    THEN Err(ADDRESS_LABEL_NOT_FOUND, "Wallet label not found")
    ELSE Ok(<<Resolved(IdText(spec.s), wallets[spec.s])>>)
  ELSE IF ~hasResolver THEN Ok(<<>>)
  ELSE IF spec.type = "index" THEN Ok(indexEntries(<<spec.n>>))
  ELSE IF spec.type = "indices" THEN Ok(indexEntries(spec.xs))
  ELSE LET r == parseRange(spec.segs) IN
       IF r.ok THEN Ok(indexEntries(r.value)) ELSE r

\* hasResolver: executeTransfer passes an addressResolver iff addressContext is set
resolveToAddresses(spec, hasResolver) ==
  IF spec.type = "address" THEN Ok(<<Resolved(IdText(spec.s), spec.s)>>)
  ELSE IF spec.type = "label" THEN
    IF spec.s \notin DOMAIN wallets
    THEN Err(ADDRESS_LABEL_NOT_FOUND, "Wallet label not found")
    ELSE Ok(<<Resolved(IdText(spec.s), wallets[spec.s])>>)
  ELSE IF ~hasResolver THEN Err(VALIDATION_ERROR, "Address resolver required")
  ELSE IF spec.type = "index" THEN Ok(indexEntries(<<spec.n>>))
  ELSE IF spec.type = "indices" THEN Ok(indexEntries(spec.xs))
  ELSE LET r == parseRange(spec.segs) IN
       IF r.ok THEN Ok(indexEntries(r.value)) ELSE r

resolveToAddress(spec, hasResolver) ==
  IF spec.type = "address" THEN Ok(spec.s)
  ELSE IF spec.type = "label" THEN
    IF spec.s \notin DOMAIN wallets
    THEN Err(ADDRESS_LABEL_NOT_FOUND, "Wallet label not found")
    ELSE Ok(wallets[spec.s])
  ELSE IF spec.type = "index" THEN
    IF ~hasResolver THEN Err(VALIDATION_ERROR, "Address resolver required")
    ELSE Ok(generateAddress(spec.n))
  ELSE Err(VALIDATION_ERROR, "Cannot resolve to a single address")

(***************************************************************************)
(* Configuration lookups (config/loader.ts, resolveTokenAddress)           *)
(***************************************************************************)
ChainId == "eip155:31337"
NoChain == "undefined"

\* config.chains has the one chain "anvil"
toCaip2ChainId(identifier) == IF identifier = "anvil" THEN ChainId ELSE NoChain

\* config.tokens[chainId] has the one entry "TKN"; cfg is that entry
NoTokenConfig == [present |-> FALSE, address |-> "", decimals |-> DefaultDecimals, strategy |-> "auto"]
getTokenConfig(cfg, symbol) == IF symbol = "TKN" THEN cfg ELSE NoTokenConfig

resolveTokenAddress(cfg, token) ==
  IF token = TokenAddress THEN Ok(token)
  ELSE IF token = "ETH" \/ token = "native" THEN Ok(NATIVE_TOKEN_ADDRESS)
  ELSE IF getTokenConfig(cfg, token).present THEN Ok(getTokenConfig(cfg, token).address)
  ELSE Err(TOKEN_NOT_FOUND, "Token not found")

\* parseUnits(amount, decimals) for the decimal string m * 10^-e.  A result
\* above every balance of the model is represented by Huge.
Pow10(k) == IF k = 0 THEN 1 ELSE IF k = 1 THEN 10 ELSE Huge
parseUnits(amount, decimals) ==
  IF amount.m = 0 THEN 0
  ELSE IF decimals >= amount.e
    THEN (IF Pow10(decimals - amount.e) = Huge THEN Huge
          ELSE amount.m * Pow10(decimals - amount.e))
  ELSE 0   \* fraction digits beyond the token's decimals round to nothing

(***************************************************************************)
(* The batch contract (packages/contracts/src/HotSweep.sol) and the token  *)
(* it sweeps (packages/contracts/src/Mocks.sol)                            *)
(*                                                                         *)
(* A call runs on a world w: ETH and token balances, the user's allowance  *)
(* to the contract, the user's permit nonce, the authorization nonces the  *)
(* token has seen.  It returns with the world it made, or reverts.         *)
(***************************************************************************)
This == "0xSweep"            \* address(this)
Account1 == "0x1"            \* an account that can deploy and call
Account3 == "0x3"            \* another one
User1 == "0x2"               \* the holder whose tokens are swept
Recipient == "0x4"           \* an account that accepts ETH
Rejector == "0xReverting"    \* a contract whose receive() reverts
ETHER == "0x00"              \* address(0) in SweepBatch.token
Erc20 == "0xErc20"           \* the token: ERC-20 with permit and ERC-3009

Accounts == {Account1, Account3}
EthHolders == {This, Recipient}
TokenHolders == {This, User1, Recipient, Rejector}

SweepBatch(token, recipient, amount) ==
  [token |-> token, recipient |-> recipient, amount |-> amount]
\* nonce: the permit nonce the signature was made for; signer: who signed
PermitBatch(tokenOwner, amount, nonce, signer) ==
  [token |-> Erc20, owner |-> tokenOwner, amount |-> amount, nonce |-> nonce,
   signer |-> signer]
AuthBatch(from, to, value, nonce, signer) ==
  [token |-> Erc20, from |-> from, to |-> to, value |-> value, nonce |-> nonce,
   signer |-> signer]

Returns(w) == [ok |-> TRUE, w |-> w]
Reverts(w) == [ok |-> FALSE, w |-> w]

\* recipient.call{value: amount}("") followed by require(success, ...)
ethCall(w, to, amount) ==
  IF w.eth[This] >= amount /\ to # Rejector
  THEN Returns([w EXCEPT !.eth[This] = @ - amount, !.eth[to] = @ + amount])
  ELSE Reverts(w)

\* IERC20(token).safeTransfer(to, amount), from the contract's balance
safeTransfer(w, to, amount) ==
  IF w.tok[This] >= amount
  THEN Returns([w EXCEPT !.tok[This] = @ - amount, !.tok[to] = @ + amount])
  ELSE Reverts(w)

\* IERC20Permit(token).permit(owner, address(this), amount, ...): the
\* signature must be the owner's, made for the owner's current nonce
permit(w, b) ==
  IF b.signer = b.owner /\ b.nonce = w.nonces
  THEN Returns([w EXCEPT !.allowance = b.amount, !.nonces = @ + 1])
  ELSE Reverts(w)

\* IERC20(token).safeTransferFrom(from, to, amount), spending the allowance
safeTransferFrom(w, from, to, amount) ==
  IF w.allowance >= amount /\ w.tok[from] >= amount
  THEN Returns([w EXCEPT !.allowance = @ - amount,
                         !.tok[from] = @ - amount, !.tok[to] = @ + amount])
  ELSE Reverts(w)

\* MockUSDC.transferWithAuthorization
transferWithAuthorization(w, b) ==
  IF b.nonce \notin w.auths /\ b.signer = b.from /\ w.tok[b.from] >= b.value
  THEN Returns([w EXCEPT !.auths = @ \cup {b.nonce},
                         !.tok[b.from] = @ - b.value, !.tok[b.to] = @ + b.value])
  ELSE Reverts(w)

\* variant: the result of the ETH call is not required; the loop goes on
RECURSIVE sweepLoopUnchecked(_, _)
sweepLoopUnchecked(w, batches) ==
  IF batches = <<>> THEN Returns(w)
  ELSE LET batch == Head(batches)
           r == IF batch.token = ETHER
                THEN ethCall(w, batch.recipient, batch.amount)
                ELSE safeTransfer(w, batch.recipient, batch.amount)
       IN IF ~r.ok /\ batch.token # ETHER THEN Reverts(w)
          ELSE sweepLoopUnchecked(r.w, Tail(batches))

\* the loop of executeBatchSweep
RECURSIVE sweepLoop(_, _)
sweepLoop(w, batches) ==
  IF batches = <<>> THEN Returns(w)
  ELSE LET batch == Head(batches)
           r == IF batch.token = ETHER
                THEN ethCall(w, batch.recipient, batch.amount)
                ELSE safeTransfer(w, batch.recipient, batch.amount)
       IN IF ~r.ok THEN Reverts(w) ELSE sweepLoop(r.w, Tail(batches))

\* the loop of executeBatchPermitSweep
RECURSIVE permitLoop(_, _, _)
permitLoop(w, batches, recipient) ==
  IF batches = <<>> THEN Returns(w)
  ELSE LET batch == Head(batches)
           p == permit(w, batch)
           r == IF p.ok THEN safeTransferFrom(p.w, batch.owner, recipient, batch.amount)
                ELSE p
       IN IF ~r.ok THEN Reverts(w) ELSE permitLoop(r.w, Tail(batches), recipient)

\* the loop of executeBatchAuthSweep
RECURSIVE authLoop(_, _)
authLoop(w, batches) ==
  IF batches = <<>> THEN Returns(w)
  ELSE LET r == transferWithAuthorization(w, Head(batches))
       IN IF ~r.ok THEN Reverts(w) ELSE authLoop(r.w, Tail(batches))

\* a transaction to the contract, and its receipt
Call(fn, caller, batches, recipient, token) ==
  [fn |-> fn, caller |-> caller, batches |-> batches, recipient |-> recipient,
   token |-> token]
NoCall == Call("none", "", <<>>, "", "")
NoReceipt == [call |-> NoCall, ok |-> FALSE]

\* new HotSweep(initialOwner), the contract and the user funded
Deployed(initialOwner) ==
  [w |-> [eth |-> [a \in EthHolders |-> IF a = This THEN MaxHold ELSE 0],
          tok |-> [a \in TokenHolders |-> IF a \in {This, User1} THEN MaxHold ELSE 0],
          allowance |-> 0, nonces |-> 0, auths |-> {}],
   initialOwner |-> initialOwner,        \* history: the constructor's argument
   immutableOwner |-> initialOwner,      \* _IMMUTABLE_OWNER
   storedOwner |-> initialOwner,         \* Ownable._owner
   pending |-> NoCall,                   \* the transaction sent and not yet mined
   last |-> NoReceipt]                   \* the receipt of the transaction mined last

(***************************************************************************)
(* State                                                                   *)
(***************************************************************************)
VARIABLES
  chain,          \* the chain behind the client: balances, gas price, token
  strategyCache,  \* module-level Map of strategy.ts
  ctx,            \* TransferContext: signerAccount, addressContext, token config
  opts,           \* TransferOptions of the executeTransfer call
  pc,             \* position of the call: "idle", an await, "done"
  x,              \* locals of executeTransfer
  results,        \* results array of executeTransfer
  u,              \* locals of the running executeSingleTransfer
  ev,             \* history: what the running unit has done so far
  faults,         \* history: transport faults injected so far
  ret,            \* value returned by executeTransfer (as a list of outcomes)
  calls,          \* direct calls of the exported detectStrategy, per caller
  publicClientCache, \* module-level client cache of the chain client: its keys
  units,          \* the for loop of executeTransfer: where each unit's call stands
  evm             \* the deployed HotSweep contract and the balances it deals with

vars == <<chain, strategyCache, ctx, opts, pc, x, results, u, ev, faults, ret, calls,
          publicClientCache, units, evm>>

\* getCacheKey(token, chainId): one chain of the model, so chainId is ChainId
getCacheKey(token, chainId) == <<chainId, token>>

NoAccount == "undefined"
NoStrategy == "undefined"

(***************************************************************************)
(* Inputs: the requests and environments executeTransfer is run in.        *)
(* The full product of all dimensions is out of reach, so the scenarios    *)
(* are the union of families, each of which varies one group of dimensions *)
(* exhaustively and takes the others from a short list.                    *)
(***************************************************************************)
IntSegs == {Seg(n, n, FALSE) : n \in Indices}
DashSegs == {Seg(lo, hi, TRUE) : lo \in Indices, hi \in Indices}

SeqsUpTo(S, n) == UNION {[1..k -> S] : k \in 1..n}

\* "0", "1", "0,1", "1,1", ... and "0-1", "1-0", ..., an address, a label
FromTexts ==
  {TextList(segs) : segs \in SeqsUpTo(IntSegs, MaxSegs)}
  \cup {TextList(<<sg>>) : sg \in DashSegs}
  \cup {TextHex(generateAddress(0)), TextWord("deployer")}

Text0 == TextList(<<Seg(0, 0, FALSE)>>)

AmountAll == [all |-> TRUE, m |-> 0, e |-> 0]
Amount(m, e) == [all |-> FALSE, m |-> m, e |-> e]

\* explicit amounts: whole numbers "m" and wei-style fractions "0.00..0m"
AmountsFor(t) ==
  {AmountAll} \cup
  {Amount(m, e) : m \in 0..MaxBal,
                  e \in IF t = "TKN" THEN {0}
                        ELSE IF t = "ETH" THEN {DefaultDecimals}
                        ELSE {0, DefaultDecimals}}

StrategyOptions == SweepStrategy \cup {NoStrategy}
Tokens == {"ETH", "TKN", TokenAddress}

\* options.parallel: absent, or a number of units
NoParallel == [given |-> FALSE, n |-> 0]
Parallel(n) == [given |-> TRUE, n |-> n]

MkOpts(f, to, c, t, a, st, d) ==
  [from |-> f, to |-> to, chain |-> c, token |-> t, amount |-> a,
   strategy |-> st, dryRun |-> d, parallel |-> NoParallel]

TokenConfig(st) ==
  [present |-> TRUE, address |-> TokenAddress, decimals |-> 0, strategy |-> st]

MkCtx(signer, actx, st) ==
  [signerAccount |-> signer, addressContext |-> actx, tokenCfg |-> TokenConfig(st),
   chainEnabled |-> TRUE]

GasUnit(gp) == gp * estimatedGas

\* what symbol() of the token contract returns: the key of its configuration
\* entry, or another text
OnChainSymbol == "TKN"
OtherSymbol == "TKN.e"

\* every source holds nat[its index] gas units of native funds and
\* tok[its index] tokens; the relayer is funded, the hot wallet empty
MkChain(nat, tok, gp, c3009, c2612) ==
  [native |-> [a \in Addresses |->
                 IF a = HotWallet THEN 0
                 ELSE IF a = Relayer THEN MaxNativeK * GasUnit(gp)
                 ELSE nat[CHOOSE i \in Indices : generateAddress(i) = a] * GasUnit(gp)],
   token |-> [a \in Addresses |->
                 IF a = HotWallet THEN 0
                 ELSE IF a = Relayer THEN MaxBal
                 ELSE tok[CHOOSE i \in Indices : generateAddress(i) = a]],
   gasPrice |-> gp,
   symbol |-> OnChainSymbol,
   caps |-> [eip3009 |-> c3009, eip2612 |-> c2612],
   nonces |-> [a \in Addresses |-> 0],
   txs |-> <<>>,
   automine |-> TRUE,   \* the node mines each transaction as it is submitted
   pool |-> <<>>]       \* else: the transactions broadcast, with their status

Same(v) == [i \in Indices |-> v]

DetectedStrategies == {"eip3009", "eip2612", "legacy"}

\* the cache holds what earlier detections of this process left in it
CacheKeys == {<<ChainId, TokenAddress>>}
Caches == UNION {[K -> DetectedStrategies] : K \in SUBSET CacheKeys}
EmptyCache == [k \in {} |-> "legacy"]

\* the state in which executeTransfer(context, options) is called
Called(o, c, ch, cache) ==
  /\ opts = o
  /\ ctx = c
  /\ chain = ch
  /\ strategyCache = cache

\* strategy selection: every override, configured strategy, cache content and
\* capability set, for a funded source with a seed phrase
StrategyScenarios ==
  \E t \in Tokens, st \in StrategyOptions, d \in BOOLEAN, cfg \in SweepStrategy,
     gp \in 1..MaxGasPrice, c3 \in BOOLEAN, c2 \in BOOLEAN, cache \in Caches :
    Called(MkOpts(Text0, TextHex(HotWallet), "anvil", t, AmountAll, st, d),
           MkCtx(NoAccount, "mnemonic", cfg),
           MkChain(Same(MaxNativeK), Same(MaxBal), gp, c3, c2),
           cache)

\* a configured token whose contract reports a symbol other than the key of
\* its configuration entry, named by that key or by its address
SymbolScenarios ==
  \E t \in {"TKN", TokenAddress}, st \in {NoStrategy, "auto"}, d \in BOOLEAN,
     cfg \in SweepStrategy, c3 \in BOOLEAN, c2 \in BOOLEAN :
    Called(MkOpts(Text0, TextHex(HotWallet), "anvil", t, AmountAll, st, d),
           MkCtx(NoAccount, "mnemonic", cfg),
           [MkChain(Same(MaxNativeK), Same(MaxBal), 1, c3, c2)
              EXCEPT !.symbol = OtherSymbol],
           EmptyCache)

SignerContexts ==
  {<<NoAccount, "none">>, <<NoAccount, "mnemonic">>, <<NoAccount, "xpub">>,
   <<Relayer, "mnemonic">>}

\* money movement of one unit: every amount, balance and signer source, for
\* each strategy on a token that has every capability or none
MoneyScenarios ==
  \E t \in Tokens, d \in BOOLEAN, sg \in SignerContexts,
     nat \in 0..MaxNativeK, tok \in 0..MaxBal, gp \in 1..MaxGasPrice :
    \E a \in AmountsFor(t),
       st \in IF t = "ETH" THEN {"auto"} ELSE {"auto", "legacy", "eip2612", "eip3009"},
       cap \in IF t = "ETH" THEN {TRUE} ELSE BOOLEAN :
      /\ t = TokenAddress => a.e = DefaultDecimals \/ a.all
      /\ Called(MkOpts(Text0, TextHex(HotWallet), "anvil", t, a, st, d),
                MkCtx(sg[1], sg[2], "auto"),
                MkChain(Same(nat), Same(tok), gp, cap, cap),
                EmptyCache)

\* funds of one source: gas units of native funds and tokens
Funds == {<<MaxNativeK, MaxBal>>, <<0, MaxBal>>, <<MaxNativeK, 0>>}

\* several source addresses with different funds
MultiScenarios ==
  \E f \in FromTexts, t \in {"ETH", "TKN"}, all \in BOOLEAN, d \in BOOLEAN,
     sg \in {<<NoAccount, "mnemonic">>, <<generateAddress(0), "mnemonic">>,
             <<NoAccount, "none">>},
     funds \in [Indices -> Funds], gp \in 1..MaxGasPrice, cap \in BOOLEAN :
    Called(MkOpts(f, TextHex(HotWallet), "anvil", t,
                  IF all THEN AmountAll
                  ELSE Amount(1, IF t = "ETH" THEN DefaultDecimals ELSE 0),
                  "auto", d),
           MkCtx(sg[1], sg[2], "auto"),
           MkChain([i \in Indices |-> funds[i][1]], [i \in Indices |-> funds[i][2]],
                   gp, cap, cap),
           EmptyCache)

\* requests whose chain, token, source or destination does not resolve
ErrorScenarios ==
  \E f \in FromTexts \cup {TextWord("no-such-label")},
     to \in {TextHex(HotWallet), TextWord("hot-wallet"), TextWord("no-such-label"),
             Text0, TextList(<<Seg(0, 0, FALSE), Seg(1, 1, FALSE)>>)},
     c \in {"anvil", "no-such-chain"}, t \in {"TKN", "INVALID"},
     actx \in {"none", "mnemonic"} :
    Called(MkOpts(f, to, c, t, AmountAll, NoStrategy, FALSE),
           MkCtx(NoAccount, actx, "auto"),
           MkChain(Same(MaxNativeK), Same(MaxBal), 1, FALSE, FALSE),
           EmptyCache)

\* the client cache holds the clients earlier requests of this process created
ClientCaches == SUBSET {ChainId}

\* requests on a chain whose configuration now says enabled = false, in a
\* process that has or has not served that chain before
DisabledScenarios ==
  \E t \in Tokens, d \in BOOLEAN, f \in {Text0, TextWord("no-such-label")},
     clients \in ClientCaches :
    /\ Called(MkOpts(f, TextHex(HotWallet), "anvil", t, AmountAll, NoStrategy, d),
              [MkCtx(NoAccount, "mnemonic", "auto") EXCEPT !.chainEnabled = FALSE],
              MkChain(Same(MaxNativeK), Same(MaxBal), 1, FALSE, FALSE),
              EmptyCache)
    /\ publicClientCache = clients

\* requests whose source or destination is given as an AddressSpec object,
\* next to the requests that give the same specification as a text
ObjectScenarios ==
  \E f \in {Text0, TextList(<<Seg(0, 1, TRUE)>>)}, fo \in BOOLEAN, too \in BOOLEAN,
     d \in BOOLEAN :
    Called(MkOpts(IF fo THEN TextObject(parseAddressSpec(f)) ELSE f,
                  IF too THEN TextObject(parseAddressSpec(TextHex(HotWallet)))
                  ELSE TextHex(HotWallet),
                  "anvil", "ETH", AmountAll, NoStrategy, d),
           MkCtx(NoAccount, "mnemonic", "auto"),
           MkChain(Same(MaxNativeK), Same(MaxBal), 1, FALSE, FALSE),
           EmptyCache)

\* whole-number amounts of the configured token, named by its symbol or by
\* its contract address
DecimalsScenarios ==
  \E t \in {"TKN", TokenAddress}, m \in 1..MaxBal, d \in BOOLEAN :
    Called(MkOpts(Text0, TextHex(HotWallet), "anvil", t, Amount(m, 0), "legacy", d),
           MkCtx(NoAccount, "mnemonic", "auto"),
           MkChain(Same(MaxNativeK), Same(MaxBal), 1, FALSE, FALSE),
           EmptyCache)

NoLocals ==
  [fromAddresses |-> <<>>, toAddress |-> "", tokenAddress |-> "",
   symbol |-> "", decimals |-> DefaultDecimals]

FreshUnit ==
  [balance |-> 0, native0 |-> 0, dest0 |-> 0, transferAmount |-> 0, strategy |-> NoStrategy,
   p3009 |-> "pending", p2612 |-> "pending",
   account |-> NoAccount, nonce |-> 0, signed |-> <<>>, txHash |-> DryRunHash]

\* a caller of detectStrategy: the token and the configured strategy it
\* passed, where its call is suspended, what its probes answered, what it
\* returned; after is history: the strategy the previous call returned, when
\* this call began with no other call in flight and nothing has interfered
\* since
Callers == 1..MaxCallers
IdleCall ==
  [pc |-> "idle", token |-> "", config |-> NoStrategy,
   p3009 |-> "pending", p2612 |-> "pending",
   result |-> NoStrategy, after |-> NoStrategy,
   first |-> FALSE, old |-> FALSE]
\* cleared and stale are history, kept when track is set: the cache has been
\* cleared and no call that consults it has started since; the entry was
\* written by a call that had probed before the last clear
NoCalls ==
  [proc |-> [c \in Callers |-> IdleCall], last |-> NoStrategy,
   track |-> FALSE, cleared |-> FALSE, stale |-> FALSE]

Init ==
  /\ \/ StrategyScenarios /\ publicClientCache = {}
     \/ MoneyScenarios /\ publicClientCache = {}
     \/ MultiScenarios /\ publicClientCache = {}
     \/ ErrorScenarios /\ publicClientCache = {}
     \/ SymbolScenarios /\ publicClientCache = {}
     \/ ObjectScenarios /\ publicClientCache = {}
     \/ DecimalsScenarios /\ publicClientCache = {}
     \/ DisabledScenarios
  /\ pc = "start"
  /\ x = NoLocals
  /\ results = <<>>
  /\ u = FreshUnit
  /\ ev = {}
  /\ faults = 0
  /\ ret = <<>>
  /\ calls = NoCalls
  /\ units = <<>>
  /\ evm = Deployed(Account1)

(***************************************************************************)
(* Outcomes and errors                                                     *)
(***************************************************************************)
\* a thrown value: a HotSweepError with its code, or any other Error
HotSweepError(code, message) == [hs |-> TRUE, code |-> code, message |-> message]
OtherError(message) == [hs |-> FALSE, code |-> "", message |-> message]

\* error instanceof HotSweepError ? error.code : ErrorCodes.TRANSFER_FAILED
catchCode(err) == IF err.hs THEN err.code ELSE TRANSFER_FAILED

\* a TransferResult; dryRun, unit, ev, locals and token are history fields of
\* the model: the request's flag, the unit's number, what it did, its
\* variables, the token balances at the moment the outcome is made
Outcome(success, from, to, code, message, amount, strategy, hash, unit, done) ==
  [success |-> success, from |-> from, to |-> to, code |-> code,
   message |-> message, amount |-> amount, strategy |-> strategy,
   hash |-> hash, dryRun |-> opts.dryRun, unit |-> unit, ev |-> done,
   locals |-> u, token |-> chain.token]

\* the source address of the running unit
k == Len(results) + 1
cur == x.fromAddresses[k]
toEntry == [identifier |-> String(opts.to), address |-> x.toAddress]
isNative == x.tokenAddress = NATIVE_TOKEN_ADDRESS

\* variant: a failed unit ends the loop
FinishStopAtFailure(outcome) ==
  LET rs == Append(results, outcome) IN
  /\ results' = rs
  /\ u' = FreshUnit
  /\ ev' = {}
  /\ IF Len(rs) < Len(x.fromAddresses) /\ outcome.success
     THEN pc' = "balance" /\ ret' = ret
     ELSE /\ pc' = "done"
          /\ ret' = IF Len(rs) = 1 THEN <<rs[1]>> ELSE <<rs[Len(rs)]>>

\* variant: a failed unit is run again
FinishRetry(outcome) ==
  LET rs == Append(results, outcome) IN
  /\ results' = IF outcome.success THEN rs ELSE results
  /\ u' = FreshUnit
  /\ ev' = {}
  /\ IF ~outcome.success \/ Len(rs) < Len(x.fromAddresses)
     THEN pc' = "balance" /\ ret' = ret
     ELSE /\ pc' = "done"
          /\ ret' = IF Len(rs) = 1 THEN <<rs[1]>> ELSE <<rs[Len(rs)]>>

\* results.push(...), then the next iteration or the return statement
Finish(outcome) ==
  LET rs == Append(results, outcome) IN
  /\ results' = rs
  /\ u' = FreshUnit
  /\ ev' = {}
  /\ IF Len(rs) < Len(x.fromAddresses)
     THEN pc' = "balance" /\ ret' = ret
     ELSE /\ pc' = "done"
          /\ ret' = IF Len(rs) = 1 THEN <<rs[1]>> ELSE <<rs[Len(rs)]>>

\* the catch block inside the loop of executeTransfer
UnitFails(err, done) ==
  Finish(Outcome(FALSE, cur, toEntry, catchCode(err), err.message, 0,
                 NoStrategy, DryRunHash, k, done))

\* the outcome of a chain call: it answers, or the transport fails
CallOk == IF faults < MaxFaults THEN BOOLEAN ELSE {TRUE}
Charge(ok) == faults' = IF ok THEN faults ELSE faults + 1
Did(ok, what) == IF ok THEN ev \cup {what} ELSE ev \cup {what, "fault"}

(***************************************************************************)
(* executeTransfer: resolution of chain, addresses and token               *)
(***************************************************************************)
\* getPublicClient(config, chainId): the cached client when there is one,
\* else a new client for a chain that is enabled
getPublicClient(config, chainId) ==
  IF chainId \in publicClientCache THEN Ok(chainId)
  ELSE IF ~config.chainEnabled THEN Err(CHAIN_DISABLED, "Chain is disabled")
  ELSE Ok(chainId)

Resolve ==
  /\ pc = "start"
  /\ LET chainId == toCaip2ChainId(opts.chain)
         client == getPublicClient(ctx, chainId)
         fromSpec == parseAddressSpec(String(opts.from))
         toSpec == parseAddressSpec(String(opts.to))
         hasResolver == ctx.addressContext # "none"
         fromR == resolveToAddresses(fromSpec, hasResolver)
         toR == resolveToAddress(toSpec, hasResolver)
         tokR == resolveTokenAddress(ctx.tokenCfg, opts.token)
         tokenConfig == getTokenConfig(ctx.tokenCfg, opts.token)
         err == IF chainId = NoChain THEN Err(CHAIN_NOT_FOUND, "Chain not found")
                ELSE IF ~client.ok THEN client
                ELSE IF ~fromR.ok THEN fromR
                ELSE IF ~toR.ok THEN toR
                ELSE tokR
     IN IF ~err.ok
        THEN \* outer catch: one Failure for the whole request
             /\ ret' = <<Outcome(FALSE,
                          [identifier |-> String(opts.from),
                           address |-> IF fromSpec.type = "address" THEN fromSpec.s ELSE "0x0"],
                          [identifier |-> String(opts.to),
                           address |-> IF toSpec.type = "address" THEN toSpec.s ELSE "0x0"],
                          err.code, err.message, 0, NoStrategy, DryRunHash, 0, {})>>
             /\ pc' = "done"
             /\ x' = x
        ELSE /\ x' = [fromAddresses |-> fromR.value, toAddress |-> toR.value,
                      tokenAddress |-> tokR.value, symbol |-> opts.token,
                      decimals |-> tokenConfig.decimals]
             /\ pc' = IF tokR.value = NATIVE_TOKEN_ADDRESS THEN "balance" ELSE "symbol"
             /\ ret' = ret
  /\ publicClientCache' =
       LET chainId == toCaip2ChainId(opts.chain)
       IN IF chainId # NoChain /\ getPublicClient(ctx, chainId).ok
          THEN publicClientCache \cup {chainId}
          ELSE publicClientCache
  /\ UNCHANGED <<chain, strategyCache, ctx, opts, results, u, ev, faults, calls, units, evm>>

\* symbol = await client.readContract({functionName: "symbol"}), errors swallowed
ReadSymbol ==
  /\ pc = "symbol"
  /\ \E ok \in CallOk :
       /\ Charge(ok)
       /\ x' = IF ok THEN [x EXCEPT !.symbol = chain.symbol] ELSE x
  /\ pc' = "balance"
  /\ UNCHANGED <<chain, strategyCache, ctx, opts, results, u, ev, ret, calls, publicClientCache, units, evm>>

(***************************************************************************)
(* executeSingleTransfer: balance, amount                                  *)
(***************************************************************************)
\* balance = await client.getBalance / readContract balanceOf
ReadBalance ==
  /\ pc = "balance"
  /\ \E ok \in CallOk :
       /\ Charge(ok)
       /\ IF ok
          THEN /\ u' = [u EXCEPT !.balance = IF isNative THEN chain.native[cur.address]
                                             ELSE chain.token[cur.address],
                                  !.native0 = chain.native[cur.address],
                                  !.dest0 = IF isNative THEN chain.native[x.toAddress]
                                            ELSE chain.token[x.toAddress]]
               /\ ev' = ev \cup {"getBalance"}
               /\ pc' = IF opts.amount.all /\ isNative THEN "gasprice" ELSE "amount"
               /\ UNCHANGED <<results, ret>>
          ELSE UnitFails(OtherError("rpc: balance"), Did(ok, "getBalance"))
  /\ UNCHANGED <<chain, strategyCache, ctx, opts, x, calls, publicClientCache, units, evm>>

\* variant: the reserve is one gas cost, without the 2x buffer
sweepAllNativeNoBuffer(balance, gasPrice) ==
  LET gasCost == gasPrice * estimatedGas IN
  IF balance > gasCost THEN balance - gasCost ELSE 0

\* gasCost = gasPrice * estimatedGas * 2n;
\* transferAmount = balance > gasCost ? balance - gasCost : 0n
sweepAllNative(balance, gasPrice) ==
  LET gasCost == gasPrice * estimatedGas * 2 IN
  IF balance > gasCost THEN balance - gasCost ELSE 0

\* gasPrice = await client.getGasPrice(); the reserve is 2 * gasPrice * 21000
ReadGasPrice ==
  /\ pc = "gasprice"
  /\ \E ok \in CallOk :
       /\ Charge(ok)
       /\ IF ok
          THEN /\ u' = [u EXCEPT !.transferAmount = sweepAllNative(u.balance, chain.gasPrice)]
               /\ ev' = ev \cup {"getGasPrice", "amount"}
               /\ pc' = "check"
               /\ UNCHANGED <<results, ret>>
          ELSE UnitFails(OtherError("rpc: gasPrice"), Did(ok, "getGasPrice"))
  /\ UNCHANGED <<chain, strategyCache, ctx, opts, x, calls, publicClientCache, units, evm>>

\* transferAmount = balance (token, "all") or parseUnits(amount, decimals)
ComputeAmount ==
  /\ pc = "amount"
  /\ u' = [u EXCEPT !.transferAmount =
             IF opts.amount.all THEN u.balance
             ELSE parseUnits(opts.amount, x.decimals)]
  /\ ev' = ev \cup {"amount"}
  /\ pc' = "check"
  /\ UNCHANGED <<chain, strategyCache, ctx, opts, x, results, faults, ret, calls, publicClientCache, units, evm>>

\* variant: the zero check is missing
insufficientNoZero(transferAmount, balance) == transferAmount > balance

\* if (transferAmount === 0n) throw ...; if (transferAmount > balance) throw ...
insufficient(transferAmount, balance) == transferAmount = 0 \/ transferAmount > balance

CheckAmount ==
  /\ pc = "check"
  /\ IF insufficient(u.transferAmount, u.balance)
     THEN UnitFails(HotSweepError(TRANSFER_INSUFFICIENT_BALANCE, "Insufficient balance"), ev)
     ELSE /\ pc' = "strategy"
          /\ UNCHANGED <<results, u, ev, ret>>
  /\ UNCHANGED <<chain, strategyCache, ctx, opts, x, faults, calls, publicClientCache, units, evm>>

(***************************************************************************)
(* Strategy: override, detectStrategy                                      *)
(***************************************************************************)
\* variant: the override is not looked at
usesDetectorAlways(strategyOption) == TRUE

\* strategyOption === "auto" || !strategyOption
usesDetector(strategyOption) == strategyOption = "auto" \/ strategyOption = NoStrategy

\* variant: the configured strategy is not looked at
isForcedNever(tokenConfig) == FALSE

\* tokenConfig?.strategy && tokenConfig.strategy !== "auto"
isForced(tokenConfig) == tokenConfig.present /\ tokenConfig.strategy # "auto"

\* variant: permit is preferred to authorization
priorityPermitFirst(supportsEIP3009, supportsEIP2612) ==
  IF supportsEIP2612 THEN "eip2612"
  ELSE IF supportsEIP3009 THEN "eip3009"
  ELSE "legacy"

\* variant: a token with both capabilities is given to delegation
priorityDelegation(supportsEIP3009, supportsEIP2612) ==
  IF supportsEIP3009 /\ supportsEIP2612 THEN "eip7702"
  ELSE IF supportsEIP3009 THEN "eip3009"
  ELSE IF supportsEIP2612 THEN "eip2612"
  ELSE "legacy"

\* variant: with no capability found the strategy stays auto
priorityAutoFallback(supportsEIP3009, supportsEIP2612) ==
  IF supportsEIP3009 THEN "eip3009"
  ELSE IF supportsEIP2612 THEN "eip2612"
  ELSE "auto"

\* Priority: EIP-3009 > EIP-2612 > Legacy
priority(supportsEIP3009, supportsEIP2612) ==
  IF supportsEIP3009 THEN "eip3009"
  ELSE IF supportsEIP2612 THEN "eip2612"
  ELSE "legacy"

\* "Determine strategy" and the synchronous head of detectStrategy
DetermineStrategy ==
  /\ pc = "strategy"
  /\ LET tokenConfig == getTokenConfig(ctx.tokenCfg, x.symbol) IN
     IF ~usesDetector(opts.strategy)
     THEN /\ u' = [u EXCEPT !.strategy = opts.strategy]
          /\ ev' = ev
          /\ pc' = "dryrun"
     ELSE IF isNative
     THEN /\ u' = [u EXCEPT !.strategy = "legacy"]
          /\ ev' = ev \cup {"detect"}
          /\ pc' = "dryrun"
     ELSE IF isForced(tokenConfig)
     THEN /\ u' = [u EXCEPT !.strategy = tokenConfig.strategy]
          /\ ev' = ev \cup {"detect"}
          /\ pc' = "dryrun"
     ELSE /\ u' = u
          /\ ev' = ev \cup {"detect"}
          /\ pc' = "chainid"
  /\ UNCHANGED <<chain, strategyCache, ctx, opts, x, results, faults, ret, calls, publicClientCache, units, evm>>

\* chainId = await client.getChainId(); cached = strategyCache.get(cacheKey)
DetectChainId ==
  /\ pc = "chainid"
  /\ \E ok \in CallOk :
       /\ Charge(ok)
       /\ IF ~ok
          THEN UnitFails(OtherError("rpc: chainId"), Did(ok, "getChainId"))
          ELSE LET cacheKey == getCacheKey(x.tokenAddress, ChainId) IN
               /\ ev' = ev \cup {"getChainId", "cacheGet"}
               /\ IF cacheKey \in DOMAIN strategyCache
                  THEN /\ u' = [u EXCEPT !.strategy = strategyCache[cacheKey]]
                       /\ pc' = "dryrun"
                  ELSE /\ u' = u
                       /\ pc' = "probe"
               /\ UNCHANGED <<results, ret>>
  /\ UNCHANGED <<chain, strategyCache, ctx, opts, x, calls, publicClientCache, units, evm>>

\* variant: a failing read is thrown to the caller
checkEIP3009SupportThrows ==
  /\ pc = "probe"
  /\ u.p3009 = "pending"
  /\ \E ok \in CallOk :
       /\ Charge(ok)
       /\ IF ok /\ chain.caps.eip3009
          THEN /\ u' = [u EXCEPT !.p3009 = "yes"]
               /\ ev' = Did(ok, "probe3009")
               /\ UNCHANGED <<pc, results, ret>>
          ELSE UnitFails(OtherError("rpc: authorizationState"), Did(ok, "probe3009"))
  /\ UNCHANGED <<chain, strategyCache, ctx, opts, x, calls, publicClientCache, units, evm>>

\* checkEIP3009Support: readContract authorizationState, true iff it returns
checkEIP3009Support ==
  /\ pc = "probe"
  /\ u.p3009 = "pending"
  /\ \E ok \in CallOk :
       /\ Charge(ok)
       /\ u' = [u EXCEPT !.p3009 = IF ok /\ chain.caps.eip3009 THEN "yes" ELSE "no"]
       /\ ev' = Did(ok, "probe3009")
  /\ UNCHANGED <<chain, strategyCache, ctx, opts, pc, x, results, ret, calls, publicClientCache, units, evm>>

\* checkEIP2612Support: readContract DOMAIN_SEPARATOR, true iff it returns
checkEIP2612Support ==
  /\ pc = "probe"
  /\ u.p2612 = "pending"
  /\ \E ok \in CallOk :
       /\ Charge(ok)
       /\ u' = [u EXCEPT !.p2612 = IF ok /\ chain.caps.eip2612 THEN "yes" ELSE "no"]
       /\ ev' = Did(ok, "probe2612")
  /\ UNCHANGED <<chain, strategyCache, ctx, opts, pc, x, results, ret, calls, publicClientCache, units, evm>>

\* after Promise.all: pick by priority, strategyCache.set, return
DetectDecide ==
  /\ pc = "probe"
  /\ u.p3009 # "pending"
  /\ u.p2612 # "pending"
  /\ LET strategy == priority(u.p3009 = "yes", u.p2612 = "yes")
         cacheKey == getCacheKey(x.tokenAddress, ChainId)
     IN /\ strategyCache' = [kk \in DOMAIN strategyCache \cup {cacheKey} |->
                               IF kk = cacheKey THEN strategy ELSE strategyCache[kk]]
        /\ u' = [u EXCEPT !.strategy = strategy]
  /\ ev' = ev \cup {"cacheSet"}
  /\ pc' = "dryrun"
  /\ UNCHANGED <<chain, ctx, opts, x, results, faults, ret, calls, publicClientCache, units, evm>>

\* variant: the dryRun flag is not looked at
CheckDryRunIgnored ==
  /\ pc = "dryrun"
  /\ pc' = "signer"
  /\ UNCHANGED <<chain, strategyCache, ctx, opts, x, results, u, ev, faults, ret, calls, publicClientCache, units, evm>>

\* variant: the simulated result reports the requested strategy option
CheckDryRunReportsOption ==
  /\ pc = "dryrun"
  /\ IF opts.dryRun
     THEN Finish(Outcome(TRUE, cur, toEntry, "", "", u.transferAmount,
                         IF usesDetector(opts.strategy) THEN "legacy" ELSE opts.strategy,
                         DryRunHash, k, ev))
     ELSE /\ pc' = "signer"
          /\ UNCHANGED <<results, u, ev, ret>>
  /\ UNCHANGED <<chain, strategyCache, ctx, opts, x, faults, calls, publicClientCache, units, evm>>

\* if (dryRun) return { success: true, ..., tx: { hash: "0x" } }
CheckDryRun ==
  /\ pc = "dryrun"
  /\ IF opts.dryRun
     THEN Finish(Outcome(TRUE, cur, toEntry, "", "", u.transferAmount,
                         u.strategy, DryRunHash, k, ev))
     ELSE /\ pc' = "signer"
          /\ UNCHANGED <<results, u, ev, ret>>
  /\ UNCHANGED <<chain, strategyCache, ctx, opts, x, faults, calls, publicClientCache, units, evm>>

(***************************************************************************)
(* Signer                                                                  *)
(***************************************************************************)
\* accountFromHDKey(hdKey, index): the account of the HD address of index
accountFromHDKey(index) == generateAddress(index)

\* variant: an extended public key is taken for a seed source
getSignerAccountFromPublicKey(context, identifier) ==
  IF context.signerAccount # NoAccount THEN context.signerAccount
  ELSE IF context.addressContext # "none" /\ parseInt(identifier) # NaN
    THEN accountFromHDKey(parseInt(identifier))
  ELSE NoAccount

getSignerAccount(context, identifier) ==
  IF context.signerAccount # NoAccount THEN context.signerAccount
  ELSE IF context.addressContext # "none" /\ parseInt(identifier) # NaN
          /\ context.addressContext \in {"mnemonic", "xpriv"}
    THEN accountFromHDKey(parseInt(identifier))
  ELSE NoAccount

GetSigner ==
  /\ pc = "signer"
  /\ LET account == getSignerAccount(ctx, cur.identifier) IN
     IF account = NoAccount
     THEN UnitFails(HotSweepError(WALLET_KEY_NOT_FOUND, "No signer available"), ev)
     ELSE /\ u' = [u EXCEPT !.account = account]
          /\ ev' = ev \cup {"signer"}
          /\ pc' = IF isNative THEN "send"
                   ELSE IF u.strategy = "legacy" THEN "transfer"
                   ELSE IF u.strategy = "eip2612" THEN "name2612"
                   ELSE IF u.strategy = "eip3009" THEN "name3009"
                   ELSE "unsupported"
          /\ UNCHANGED <<results, ret>>
  /\ UNCHANGED <<chain, strategyCache, ctx, opts, x, faults, calls, publicClientCache, units, evm>>

\* the final else of the dispatch
Unsupported ==
  /\ pc = "unsupported"
  /\ UnitFails(HotSweepError(STRATEGY_UNSUPPORTED, "Strategy not supported"), ev)
  /\ UNCHANGED <<chain, strategyCache, ctx, opts, x, faults, calls, publicClientCache, units, evm>>

(***************************************************************************)
(* The chain: what a submitted transaction does                            *)
(*                                                                         *)
(* The sender of every transaction is the account of the wallet client.    *)
(* A transaction that the sender cannot pay for, or that would revert, is  *)
(* rejected at submission (gas estimation) and the call throws.            *)
(***************************************************************************)
gasFee(ch) == ch.gasPrice * estimatedGas

Tx(kind, sender, to, value) ==
  [unit |-> k, kind |-> kind, sender |-> sender, to |-> to, value |-> value]

Mined(ch, tx, native, token, nonces) ==
  [ch EXCEPT !.native = native, !.token = token, !.nonces = nonces,
             !.txs = Append(ch.txs, tx)]

\* walletClient.sendTransaction({ to, value })
canSend(ch, sender, value) == ch.native[sender] >= value + gasFee(ch)
execSend(ch, sender, to, value) ==
  Mined(ch, Tx("send", sender, to, value),
        [ch.native EXCEPT ![sender] = @ - value - gasFee(ch), ![to] = @ + value],
        ch.token, ch.nonces)

\* ERC-20 transfer(to, value), msg.sender = sender
canTransfer(ch, sender, value) ==
  ch.native[sender] >= gasFee(ch) /\ ch.token[sender] >= value
execTransfer(ch, sender, to, value) ==
  Mined(ch, Tx("transfer", sender, to, value),
        [ch.native EXCEPT ![sender] = @ - gasFee(ch)],
        [ch.token EXCEPT ![sender] = @ - value, ![to] = @ + value],
        ch.nonces)

\* ERC-2612 permit(owner, spender, value, deadline, v, r, s)
canPermit(ch, sender, p) ==
  /\ ch.native[sender] >= gasFee(ch)
  /\ ch.caps.eip2612
  /\ p.signer = p.owner
  /\ p.nonce = ch.nonces[p.owner]
execPermit(ch, sender, p) ==
  Mined(ch, Tx("permit", sender, p.spender, p.value),
        [ch.native EXCEPT ![sender] = @ - gasFee(ch)],
        ch.token,
        [ch.nonces EXCEPT ![p.owner] = @ + 1])

\* ERC-3009 transferWithAuthorization(from, to, value, ...), Mocks.sol
canAuthorize(ch, sender, p) ==
  /\ ch.native[sender] >= gasFee(ch)
  /\ ch.caps.eip3009
  /\ p.signer = p.owner
  /\ ch.token[p.owner] >= p.value
execAuthorize(ch, sender, p) ==
  Mined(ch, Tx("authorize", sender, p.spender, p.value),
        [ch.native EXCEPT ![sender] = @ - gasFee(ch)],
        [ch.token EXCEPT ![p.owner] = @ - p.value, ![p.spender] = @ + p.value],
        ch.nonces)

\* a transaction accepted by a node that mines in blocks: it waits in the
\* pool; signed is the payload a permit or an authorization carries
Broadcast(ch, tx, signed) ==
  [ch EXCEPT !.pool = Append(ch.pool, [tx |-> tx, signed |-> signed, status |-> "pending"])]

\* the sender's earlier transactions are mined first (account nonce), and
\* a transaction whose sender cannot pay for it is not included
includable(ch, i) ==
  /\ ch.pool[i].status = "pending"
  /\ \A j \in 1..(i - 1) :
       ch.pool[j].tx.sender = ch.pool[i].tx.sender => ch.pool[j].status # "pending"
  /\ ch.native[ch.pool[i].tx.sender] >=
       gasFee(ch) + (IF ch.pool[i].tx.kind = "send" THEN ch.pool[i].tx.value ELSE 0)

\* whether the transaction executes when it is included, and the chain after
executes(ch, e) ==
  IF e.tx.kind = "send" THEN canSend(ch, e.tx.sender, e.tx.value)
  ELSE IF e.tx.kind = "transfer" THEN canTransfer(ch, e.tx.sender, e.tx.value)
  ELSE IF e.tx.kind = "permit" THEN canPermit(ch, e.tx.sender, e.signed)
  ELSE canAuthorize(ch, e.tx.sender, e.signed)
executed(ch, e) ==
  LET after == IF e.tx.kind = "send" THEN execSend(ch, e.tx.sender, e.tx.to, e.tx.value)
               ELSE IF e.tx.kind = "transfer"
                 THEN execTransfer(ch, e.tx.sender, e.tx.to, e.tx.value)
               ELSE IF e.tx.kind = "permit" THEN execPermit(ch, e.tx.sender, e.signed)
               ELSE execAuthorize(ch, e.tx.sender, e.signed)
  IN [after EXCEPT !.txs = Append(ch.txs, e.tx)]

\* a block includes transaction i of the pool: its effects when it executes,
\* the gas fee only when it reverts
Include(i) ==
  /\ ~chain.automine
  /\ i \in DOMAIN chain.pool
  /\ includable(chain, i)
  /\ LET e == chain.pool[i] IN
     chain' = IF executes(chain, e)
              THEN [executed(chain, e) EXCEPT !.pool[i].status = "success"]
              ELSE [chain EXCEPT !.native[e.tx.sender] = @ - gasFee(chain),
                                 !.pool[i].status = "reverted"]
  /\ UNCHANGED <<strategyCache, ctx, opts, pc, x, results, u, ev, faults, ret, calls, publicClientCache, units, evm>>

(***************************************************************************)
(* executeSingleTransfer: dispatch by strategy                             *)
(***************************************************************************)
\* a submission: the hash of the mined transaction, or a thrown error;
\* keep says whether the code assigns the hash to txHash
Submit(can, after, next, what, keep) ==
  \E ok \in CallOk :
    /\ Charge(ok)
    /\ IF ok /\ can
       THEN /\ chain' = IF chain.automine THEN after
                        ELSE Broadcast(chain, after.txs[Len(after.txs)], u.signed)
            /\ u' = IF keep
                    THEN [u EXCEPT !.txHash = IF chain.automine THEN Len(after.txs)
                                              ELSE Len(chain.pool) + 1]
                    ELSE u
            /\ ev' = ev \cup {what}
            /\ pc' = next
            /\ UNCHANGED <<results, ret>>
       ELSE /\ chain' = chain
            /\ UnitFails(OtherError("rpc: " \o what), Did(ok, what))

\* txHash = await walletClient.sendTransaction({ to, value })
SendNative ==
  /\ pc = "send"
  /\ Submit(canSend(chain, u.account, u.transferAmount),
            execSend(chain, u.account, x.toAddress, u.transferAmount),
            "receipt", "submit:send", TRUE)
  /\ UNCHANGED <<strategyCache, ctx, opts, x, calls, publicClientCache, units, evm>>

\* variant: the arguments of transfer are [fromAddress, amount]
SubmitTransferToSource ==
  /\ pc = "transfer"
  /\ Submit(canTransfer(chain, u.account, u.transferAmount),
            execTransfer(chain, u.account, cur.address, u.transferAmount),
            "receipt", "submit:transfer", TRUE)
  /\ UNCHANGED <<strategyCache, ctx, opts, x, calls, publicClientCache, units, evm>>

\* txHash = await walletClient.writeContract({ functionName: "transfer" })
SubmitTransfer ==
  /\ pc = "transfer"
  /\ Submit(canTransfer(chain, u.account, u.transferAmount),
            execTransfer(chain, u.account, x.toAddress, u.transferAmount),
            "receipt", "submit:transfer", TRUE)
  /\ UNCHANGED <<strategyCache, ctx, opts, x, calls, publicClientCache, units, evm>>

\* a read that throws when the transport fails or the function is missing
Read(exists, next, what, unit) ==
  \E ok \in CallOk :
    /\ Charge(ok)
    /\ IF ok /\ exists
       THEN /\ u' = unit
            /\ ev' = ev \cup {what}
            /\ pc' = next
            /\ UNCHANGED <<results, ret>>
       ELSE UnitFails(OtherError("rpc: " \o what), Did(ok, what))

\* tokenName = await client.readContract({ functionName: "name" })
ReadName2612 ==
  /\ pc = "name2612"
  /\ Read(TRUE, "nonces", "name", u)
  /\ UNCHANGED <<chain, strategyCache, ctx, opts, x, calls, publicClientCache, units, evm>>

\* nonce = await client.readContract({ functionName: "nonces", args: [fromAddress] })
ReadNonce ==
  /\ pc = "nonces"
  /\ Read(chain.caps.eip2612, "sign2612", "nonces",
          [u EXCEPT !.nonce = chain.nonces[cur.address]])
  /\ UNCHANGED <<chain, strategyCache, ctx, opts, x, calls, publicClientCache, units, evm>>

\* signPermit(account, client, {spender: toAddress, value, nonce}): owner is
\* account.address
signPermit(account, spender, value, nonce) ==
  [signer |-> account, owner |-> account, spender |-> spender,
   value |-> value, nonce |-> nonce]

SignPermit ==
  /\ pc = "sign2612"
  /\ Read(TRUE, "permit", "sign",
          [u EXCEPT !.signed = signPermit(u.account, x.toAddress, u.transferAmount, u.nonce)])
  /\ UNCHANGED <<chain, strategyCache, ctx, opts, x, calls, publicClientCache, units, evm>>

\* txHash = await walletClient.writeContract({ functionName: "permit" })
SubmitPermit ==
  /\ pc = "permit"
  /\ Submit(canPermit(chain, u.account, u.signed),
            execPermit(chain, u.account, u.signed),
            "transfer2", "submit:permit", TRUE)
  /\ UNCHANGED <<strategyCache, ctx, opts, x, calls, publicClientCache, units, evm>>

\* await walletClient.writeContract({ functionName: "transfer" }) after the
\* permit; its hash is not kept
SubmitTransferAfterPermit ==
  /\ pc = "transfer2"
  /\ Submit(canTransfer(chain, u.account, u.transferAmount),
            execTransfer(chain, u.account, x.toAddress, u.transferAmount),
            "receipt", "submit:transfer", FALSE)
  /\ UNCHANGED <<strategyCache, ctx, opts, x, calls, publicClientCache, units, evm>>

ReadName3009 ==
  /\ pc = "name3009"
  /\ Read(TRUE, "sign3009", "name", u)
  /\ UNCHANGED <<chain, strategyCache, ctx, opts, x, calls, publicClientCache, units, evm>>

\* signTransferWithAuthorization(account, client, {to: toAddress, value}):
\* from is account.address, the nonce is fresh
signTransferWithAuthorization(account, to, value) ==
  [signer |-> account, owner |-> account, spender |-> to,
   value |-> value, nonce |-> 0]

SignAuthorization ==
  /\ pc = "sign3009"
  /\ Read(TRUE, "authorize", "sign",
          [u EXCEPT !.signed = signTransferWithAuthorization(u.account, x.toAddress, u.transferAmount)])
  /\ UNCHANGED <<chain, strategyCache, ctx, opts, x, calls, publicClientCache, units, evm>>

\* txHash = await walletClient.writeContract({ functionName: "transferWithAuthorization" })
SubmitAuthorization ==
  /\ pc = "authorize"
  /\ Submit(canAuthorize(chain, u.account, u.signed),
            execAuthorize(chain, u.account, u.signed),
            "receipt", "submit:authorize", TRUE)
  /\ UNCHANGED <<strategyCache, ctx, opts, x, calls, publicClientCache, units, evm>>

\* waitForTransactionReceipt answers once the transaction is in a block
mined(ch, hash) == IF ch.automine THEN TRUE ELSE ch.pool[hash].status # "pending"

\* variant: the result does not carry the submitted transaction's hash
WaitReceiptNoHash ==
  /\ pc = "receipt"
  /\ \E ok \in CallOk :
       /\ Charge(ok)
       /\ ok => mined(chain, u.txHash)
       /\ IF ok
          THEN Finish(Outcome(TRUE, cur, toEntry, "", "", u.transferAmount,
                              u.strategy, DryRunHash, k, ev \cup {"receipt"}))
          ELSE UnitFails(OtherError("rpc: receipt"), Did(ok, "receipt"))
  /\ UNCHANGED <<chain, strategyCache, ctx, opts, x, calls, publicClientCache, units, evm>>

\* receipt = await client.waitForTransactionReceipt({ hash: txHash }); return
WaitReceipt ==
  /\ pc = "receipt"
  /\ \E ok \in CallOk :
       /\ Charge(ok)
       /\ ok => mined(chain, u.txHash)
       /\ IF ok
          THEN Finish(Outcome(TRUE, cur, toEntry, "", "", u.transferAmount,
                              u.strategy, u.txHash, k, ev \cup {"receipt"}))
          ELSE UnitFails(OtherError("rpc: receipt"), Did(ok, "receipt"))
  /\ UNCHANGED <<chain, strategyCache, ctx, opts, x, calls, publicClientCache, units, evm>>

Next ==
  \/ Resolve \/ ReadSymbol
  \/ ReadBalance \/ ReadGasPrice \/ ComputeAmount \/ CheckAmount
  \/ DetermineStrategy \/ DetectChainId
  \/ checkEIP3009Support \/ checkEIP2612Support \/ DetectDecide
  \/ CheckDryRun \/ GetSigner \/ Unsupported
  \/ SendNative \/ SubmitTransfer
  \/ ReadName2612 \/ ReadNonce \/ SignPermit \/ SubmitPermit
  \/ SubmitTransferAfterPermit
  \/ ReadName3009 \/ SignAuthorization \/ SubmitAuthorization
  \/ WaitReceipt

Spec == Init /\ [][Next]_vars

\* every await of the call is answered or fails: the call, which is the only
\* thing running, takes its next step.  The requests are those of Init with
\* one source, a range of two or an unknown label, signed from a seed phrase
LiveInit ==
  /\ Init
  /\ opts.from \in {Text0, TextList(<<Seg(0, 1, TRUE)>>), TextWord("no-such-label")}
  /\ ctx.signerAccount = NoAccount
  /\ ctx.addressContext = "mnemonic"

LiveSpec == LiveInit /\ [][Next]_vars /\ WF_vars(Next)

(***************************************************************************)
(* The same call against a node that mines in blocks: a submitted          *)
(* transaction waits in the pool until a block includes it.  The pool may  *)
(* hold a transaction of the first source that another unit for the same   *)
(* owner (an earlier request, a concurrent process) has submitted.         *)
(***************************************************************************)
EarlierTxs(t) ==
  LET owner == generateAddress(0)
      tx(kind, value, signed) ==
        <<[tx |-> [unit |-> 0, kind |-> kind, sender |-> owner, to |-> HotWallet,
                   value |-> value],
           signed |-> signed, status |-> "pending"]>>
  IN IF t = "ETH" THEN {<<>>, tx("send", GasUnit(1), <<>>)}
     ELSE {<<>>, tx("transfer", MaxBal, <<>>),
           tx("permit", MaxBal, signPermit(owner, HotWallet, MaxBal, 0))}

PoolScenarios ==
  \E t \in {"ETH", "TKN"}, all \in BOOLEAN, d \in BOOLEAN,
     f \in {Text0, TextList(<<Seg(0, 1, TRUE)>>)} :
    \E st \in IF t = "ETH" THEN {"auto"} ELSE StrategyOptions,
       earlier \in EarlierTxs(t), cap \in IF t = "ETH" THEN {TRUE} ELSE BOOLEAN :
      Called(MkOpts(f, TextHex(HotWallet), "anvil", t,
                    IF all THEN AmountAll
                    ELSE Amount(1, IF t = "ETH" THEN DefaultDecimals ELSE 0),
                    st, d),
             MkCtx(NoAccount, "mnemonic", "auto"),
             [MkChain(Same(MaxNativeK), Same(MaxBal), 1, cap, cap)
                EXCEPT !.automine = FALSE, !.pool = earlier],
             EmptyCache)

PoolInit ==
  /\ PoolScenarios
  /\ publicClientCache = {}
  /\ pc = "start"
  /\ x = NoLocals
  /\ results = <<>>
  /\ u = FreshUnit
  /\ ev = {}
  /\ faults = 0
  /\ ret = <<>>
  /\ calls = NoCalls
  /\ units = <<>>
  /\ evm = Deployed(Account1)

PoolNext ==
  \/ Next
  \/ \E i \in DOMAIN chain.pool : Include(i)

PoolSpec == PoolInit /\ [][PoolNext]_vars

(***************************************************************************)
(* detectStrategy and clearStrategyCache called directly and concurrently. *)
(* A call runs from one await to the next without interruption; other      *)
(* calls, a clear of the cache or a change of the token contract can come  *)
(* in between.                                                             *)
(***************************************************************************)
InFlight(c) == calls.proc[c].pc \in {"chainid", "probe"}
Alone(c) == \A d \in Callers \ {c} : ~InFlight(d)

\* call c is suspended in its probe and a probe of it has been answered
InProbe(c) ==
  /\ calls.proc[c].pc = "probe"
  /\ calls.proc[c].p3009 # "pending" \/ calls.proc[c].p2612 # "pending"

\* the bookkeeping of after when something interferes with the calls in flight
Interfered(proc) == [d \in Callers |-> [proc[d] EXCEPT !.after = NoStrategy]]

DetectTokens == {NATIVE_TOKEN_ADDRESS, TokenAddress}
DetectConfigs ==
  {NoTokenConfig} \cup {TokenConfig(st) : st \in {"auto", "eip2612"}}

\* the arguments of a call, as kept in its record
CallOf(tokenAddress, tokenConfig) ==
  [IdleCall EXCEPT !.token = tokenAddress,
                   !.config = IF tokenConfig.present THEN tokenConfig.strategy
                              ELSE NoStrategy]

\* variant: the forced strategy is tested before the native asset
detectStrategyForcedFirst(c) ==
  /\ ~InFlight(c)
  /\ \E tokenAddress \in DetectTokens, tokenConfig \in DetectConfigs :
       IF isForced(tokenConfig)
       THEN calls' = [calls EXCEPT !.proc[c] =
                        [CallOf(tokenAddress, tokenConfig) EXCEPT
                           !.pc = "returned", !.result = tokenConfig.strategy]]
       ELSE IF tokenAddress = NATIVE_TOKEN_ADDRESS
       THEN calls' = [calls EXCEPT !.proc[c] =
                        [CallOf(tokenAddress, tokenConfig) EXCEPT
                           !.pc = "returned", !.result = "legacy"]]
       ELSE calls' = [calls EXCEPT !.proc =
                        [Interfered(calls.proc) EXCEPT ![c] =
                           [CallOf(tokenAddress, tokenConfig) EXCEPT
                              !.pc = "chainid",
                              !.after = IF Alone(c) THEN calls.last ELSE NoStrategy,
                              !.first = calls.cleared]],
                                  !.cleared = FALSE]
  /\ UNCHANGED <<chain, strategyCache, ctx, opts, pc, x, results, u, ev, faults, ret, publicClientCache, units, evm>>

\* detectStrategy(client, tokenAddress, tokenConfig) up to its first await
detectStrategy(c) ==
  /\ ~InFlight(c)
  /\ \E tokenAddress \in DetectTokens, tokenConfig \in DetectConfigs :
       IF tokenAddress = NATIVE_TOKEN_ADDRESS
       THEN calls' = [calls EXCEPT !.proc[c] =
                        [CallOf(tokenAddress, tokenConfig) EXCEPT
                           !.pc = "returned", !.result = "legacy"]]
       ELSE IF isForced(tokenConfig)
       THEN calls' = [calls EXCEPT !.proc[c] =
                        [CallOf(tokenAddress, tokenConfig) EXCEPT
                           !.pc = "returned", !.result = tokenConfig.strategy]]
       ELSE calls' = [calls EXCEPT !.proc =
                        [Interfered(calls.proc) EXCEPT ![c] =
                           [CallOf(tokenAddress, tokenConfig) EXCEPT
                              !.pc = "chainid",
                              !.after = IF Alone(c) THEN calls.last ELSE NoStrategy,
                              !.first = calls.cleared]],
                                  !.cleared = FALSE]
  /\ UNCHANGED <<chain, strategyCache, ctx, opts, pc, x, results, u, ev, faults, ret, publicClientCache, units, evm>>

\* variant: the cache is not consulted
detectStrategyNoLookup(c) ==
  /\ calls.proc[c].pc = "chainid"
  /\ \E ok \in BOOLEAN :
       IF ~ok
       THEN calls' = [calls EXCEPT !.proc[c].pc = "failed", !.proc[c].after = NoStrategy,
                                   !.proc[c].first = FALSE]
       ELSE calls' = [calls EXCEPT !.proc[c].pc = "probe"]
  /\ UNCHANGED <<chain, strategyCache, ctx, opts, pc, x, results, u, ev, faults, ret, publicClientCache, units, evm>>

\* getChainId answers or throws; then strategyCache.get(cacheKey)
detectStrategyLookup(c) ==
  /\ calls.proc[c].pc = "chainid"
  /\ \E ok \in BOOLEAN :
       LET cacheKey == getCacheKey(TokenAddress, ChainId) IN
       IF ~ok
       THEN calls' = [calls EXCEPT !.proc[c].pc = "failed", !.proc[c].after = NoStrategy,
                                   !.proc[c].first = FALSE]
       ELSE IF cacheKey \in DOMAIN strategyCache
       THEN calls' = [calls EXCEPT !.proc[c].pc = "returned",
                                   !.proc[c].result = strategyCache[cacheKey],
                                   !.proc[c].first = FALSE,
                                   !.last = strategyCache[cacheKey]]
       ELSE calls' = [calls EXCEPT !.proc[c].pc = "probe"]
  /\ UNCHANGED <<chain, strategyCache, ctx, opts, pc, x, results, u, ev, faults, ret, publicClientCache, units, evm>>

\* checkEIP3009Support of a direct call: a failing read gives false
detectProbe3009(c) ==
  /\ calls.proc[c].pc = "probe"
  /\ calls.proc[c].p3009 = "pending"
  /\ \E ok \in BOOLEAN :
       calls' = [calls EXCEPT !.proc[c].p3009 =
                   IF ok /\ chain.caps.eip3009 THEN "yes" ELSE "no"]
  /\ UNCHANGED <<chain, strategyCache, ctx, opts, pc, x, results, u, ev, faults, ret, publicClientCache, units, evm>>

\* checkEIP2612Support of a direct call
detectProbe2612(c) ==
  /\ calls.proc[c].pc = "probe"
  /\ calls.proc[c].p2612 = "pending"
  /\ \E ok \in BOOLEAN :
       calls' = [calls EXCEPT !.proc[c].p2612 =
                   IF ok /\ chain.caps.eip2612 THEN "yes" ELSE "no"]
  /\ UNCHANGED <<chain, strategyCache, ctx, opts, pc, x, results, u, ev, faults, ret, publicClientCache, units, evm>>

\* after Promise.all: priority, strategyCache.set(cacheKey, strategy), return
detectStrategyReturn(c) ==
  /\ calls.proc[c].pc = "probe"
  /\ calls.proc[c].p3009 # "pending"
  /\ calls.proc[c].p2612 # "pending"
  /\ LET strategy == priority(calls.proc[c].p3009 = "yes", calls.proc[c].p2612 = "yes")
         cacheKey == getCacheKey(TokenAddress, ChainId)
     IN /\ strategyCache' = [kk \in DOMAIN strategyCache \cup {cacheKey} |->
                               IF kk = cacheKey THEN strategy ELSE strategyCache[kk]]
        /\ calls' = [calls EXCEPT !.proc[c].pc = "returned",
                                  !.proc[c].result = strategy,
                                  !.proc[c].first = FALSE,
                                  !.proc[c].old = FALSE,
                                  !.last = strategy,
                                  !.stale = calls.proc[c].old]
  /\ UNCHANGED <<chain, ctx, opts, pc, x, results, u, ev, faults, ret, publicClientCache, units, evm>>

\* strategyCache.clear()
clearStrategyCache ==
  /\ strategyCache' = EmptyCache
  /\ calls' = [proc |-> [d \in Callers |->
                           [Interfered(calls.proc)[d] EXCEPT
                              !.old = calls.track /\ (@ \/ InProbe(d))]],
               last |-> NoStrategy, track |-> calls.track,
               cleared |-> calls.track, stale |-> FALSE]
  /\ UNCHANGED <<chain, ctx, opts, pc, x, results, u, ev, faults, ret, publicClientCache, units, evm>>

\* the token contract behind the address changes what it implements
ChangeCapabilities ==
  /\ \E c3 \in BOOLEAN, c2 \in BOOLEAN :
       /\ [eip3009 |-> c3, eip2612 |-> c2] # chain.caps
       /\ chain' = [chain EXCEPT !.caps = [eip3009 |-> c3, eip2612 |-> c2]]
  /\ UNCHANGED <<strategyCache, ctx, opts, pc, x, results, u, ev, faults, ret, calls, publicClientCache, units, evm>>

\* a fresh process: the cache is empty, no transfer is running
DetectInit ==
  /\ \E c3 \in BOOLEAN, c2 \in BOOLEAN :
       Called(MkOpts(Text0, TextHex(HotWallet), "anvil", "TKN", AmountAll, NoStrategy, FALSE),
              MkCtx(NoAccount, "none", "auto"),
              MkChain(Same(MaxNativeK), Same(MaxBal), 1, c3, c2),
              EmptyCache)
  /\ pc = "idle"
  /\ x = NoLocals
  /\ results = <<>>
  /\ u = FreshUnit
  /\ ev = {}
  /\ faults = 0
  /\ ret = <<>>
  /\ calls = NoCalls
  /\ publicClientCache = {}
  /\ units = <<>>
  /\ evm = Deployed(Account1)

DetectNext ==
  \/ \E c \in Callers : detectStrategy(c)
  \/ \E c \in Callers : detectStrategyLookup(c)
  \/ \E c \in Callers : detectProbe3009(c)
  \/ \E c \in Callers : detectProbe2612(c)
  \/ \E c \in Callers : detectStrategyReturn(c)
  \/ clearStrategyCache
  \/ ChangeCapabilities

DetectSpec == DetectInit /\ [][DetectNext]_vars

\* the same calls, with the history of the clears kept
ClearInit ==
  /\ \E c3 \in BOOLEAN, c2 \in BOOLEAN :
       Called(MkOpts(Text0, TextHex(HotWallet), "anvil", "TKN", AmountAll, NoStrategy, FALSE),
              MkCtx(NoAccount, "none", "auto"),
              MkChain(Same(MaxNativeK), Same(MaxBal), 1, c3, c2),
              EmptyCache)
  /\ pc = "idle"
  /\ x = NoLocals
  /\ results = <<>>
  /\ u = FreshUnit
  /\ ev = {}
  /\ faults = 0
  /\ ret = <<>>
  /\ calls = [NoCalls EXCEPT !.track = TRUE]
  /\ publicClientCache = {}
  /\ units = <<>>
  /\ evm = Deployed(Account1)

ClearSpec == ClearInit /\ [][DetectNext]_vars

(***************************************************************************)
(* The loop of executeTransfer over the source addresses                   *)
(*                                                                         *)
(* Each unit is followed on its own: "pending" (its iteration has not      *)
(* begun), "called" (executeSingleTransfer is running, its balance read    *)
(* not yet answered), "flight" (past the balance read), "confirmed" or     *)
(* "failed" (its outcome is in results).                                   *)
(***************************************************************************)
Settled(i) == units[i] \in {"confirmed", "failed"}

\* variant: the calls are begun for every source at once and awaited together
callUnitTogether(i) ==
  /\ pc = "loop"
  /\ units[i] = "pending"
  /\ units' = [units EXCEPT ![i] = "called"]
  /\ UNCHANGED <<chain, strategyCache, ctx, opts, pc, x, results, u, ev, faults, ret, calls, publicClientCache, evm>>

\* for (... of fromAddresses) { ... await executeSingleTransfer(...) ... }:
\* an iteration begins when the one before it has pushed its result
callUnit(i) ==
  /\ pc = "loop"
  /\ units[i] = "pending"
  /\ \A j \in 1..(i - 1) : Settled(j)
  /\ units' = [units EXCEPT ![i] = "called"]
  /\ UNCHANGED <<chain, strategyCache, ctx, opts, pc, x, results, u, ev, faults, ret, calls, publicClientCache, evm>>

\* the balance read of a unit is answered, or throws
unitReadBalance(i) ==
  /\ pc = "loop"
  /\ units[i] = "called"
  /\ \E ok \in BOOLEAN : units' = [units EXCEPT ![i] = IF ok THEN "flight" ELSE "failed"]
  /\ UNCHANGED <<chain, strategyCache, ctx, opts, pc, x, results, u, ev, faults, ret, calls, publicClientCache, evm>>

\* the unit returns its result, or throws and the catch makes a Failure
unitSettle(i) ==
  /\ pc = "loop"
  /\ units[i] = "flight"
  /\ \E ok \in BOOLEAN : units' = [units EXCEPT ![i] = IF ok THEN "confirmed" ELSE "failed"]
  /\ UNCHANGED <<chain, strategyCache, ctx, opts, pc, x, results, u, ev, faults, ret, calls, publicClientCache, evm>>

\* return results[...] once the loop has run out
loopReturn ==
  /\ pc = "loop"
  /\ \A i \in DOMAIN units : Settled(i)
  /\ pc' = "done"
  /\ UNCHANGED <<chain, strategyCache, ctx, opts, x, results, u, ev, faults, ret, calls, publicClientCache, units, evm>>

ParallelOptions == {NoParallel} \cup {Parallel(n) : n \in 1..MaxParallel}

\* a request whose source specification has resolved to n addresses
LoopInit ==
  /\ \E p \in ParallelOptions, t \in {"ETH", "TKN"}, d \in BOOLEAN :
       Called([MkOpts(Text0, TextHex(HotWallet), "anvil", t, AmountAll, NoStrategy, d)
                 EXCEPT !.parallel = p],
              MkCtx(NoAccount, "mnemonic", "auto"),
              MkChain(Same(MaxNativeK), Same(MaxBal), 1, FALSE, FALSE),
              EmptyCache)
  /\ \E n \in 1..MaxUnits : units = [i \in 1..n |-> "pending"]
  /\ pc = "loop"
  /\ x = NoLocals
  /\ results = <<>>
  /\ u = FreshUnit
  /\ ev = {}
  /\ faults = 0
  /\ ret = <<>>
  /\ calls = NoCalls
  /\ publicClientCache = {ChainId}
  /\ evm = Deployed(Account1)

LoopNext ==
  \/ \E i \in DOMAIN units : callUnit(i)
  \/ \E i \in DOMAIN units : unitReadBalance(i)
  \/ \E i \in DOMAIN units : unitSettle(i)
  \/ loopReturn

LoopSpec == LoopInit /\ [][LoopNext]_vars

(***************************************************************************)
(* The exported functions of the parser, called on their own               *)
(***************************************************************************)
\* the segments a text can have: "n", "nx", "x" and "", and pairs of such
\* pieces, with or without further pieces
Pieces == Indices \cup {NaN}
RangeSegs ==
  {SegText(n, n, FALSE, e, FALSE) : n \in Indices, e \in BOOLEAN}
  \cup {SegText(NaN, NaN, FALSE, FALSE, FALSE)}
  \cup {sg \in {SegText(lo, hi, TRUE, e, m) :
                  lo \in Pieces, hi \in Pieces, e \in BOOLEAN, m \in BOOLEAN} :
          sg.exact => sg.lo # NaN /\ sg.hi # NaN}
RangeTexts == {TextList(segs) : segs \in SeqsUpTo(RangeSegs, MaxSegs)}

\* the function is called with a text, with or without an index resolver
ParserInit ==
  /\ \E f \in RangeTexts \cup FromTexts \cup {TextWord("no-such-label")},
        actx \in {"none", "mnemonic"} :
       Called(MkOpts(f, TextHex(HotWallet), "anvil", "TKN", AmountAll, NoStrategy, FALSE),
              MkCtx(NoAccount, actx, "auto"),
              MkChain(Same(MaxNativeK), Same(MaxBal), 1, FALSE, FALSE),
              EmptyCache)
  /\ pc = "call"
  /\ x = NoLocals
  /\ results = <<>>
  /\ u = FreshUnit
  /\ ev = {}
  /\ faults = 0
  /\ ret = <<>>
  /\ calls = NoCalls
  /\ publicClientCache = {}
  /\ units = <<>>
  /\ evm = Deployed(Account1)

\* parseRange(range)
CallParseRange ==
  /\ pc = "call"
  /\ opts.from \in RangeTexts
  /\ ret' = <<parseRange(opts.from.segs)>>
  /\ pc' = "parseRange"
  /\ UNCHANGED <<chain, strategyCache, ctx, opts, x, results, u, ev, faults, calls, publicClientCache, units, evm>>

\* resolveToAddresses(parseAddressSpec(value, wallets), wallets, resolver)
CallResolveToAddresses ==
  /\ pc = "call"
  /\ opts.from \in FromTexts \cup {TextWord("no-such-label")}
  /\ ret' = <<resolveToAddresses(parseAddressSpec(opts.from), ctx.addressContext # "none")>>
  /\ pc' = "resolveToAddresses"
  /\ UNCHANGED <<chain, strategyCache, ctx, opts, x, results, u, ev, faults, calls, publicClientCache, units, evm>>

ParserNext ==
  \/ CallParseRange
  \/ CallResolveToAddresses

ParserSpec == ParserInit /\ [][ParserNext]_vars

(***************************************************************************)
(* The batch contract: transactions are sent, then mined one at a time     *)
(***************************************************************************)
\* owner(): the immutable, not the storage slot of Ownable
owner == evm.immutableOwner

\* variant: the modifier lets every caller through
onlyOwnerAnyone(caller) == TRUE

\* modifier onlyOwner: owner() == msg.sender
onlyOwner(caller) == caller = owner

\* the items of the batches: a part or the whole of a holding; ETH to a
\* recipient that accepts it or rejects it; signatures of the holder, made for
\* its first or second permit nonce, or of somebody else
Amounts == {1, MaxHold}
SweepItems ==
  {SweepBatch(ETHER, r, a) : r \in {Recipient, Rejector}, a \in Amounts}
  \cup {SweepBatch(Erc20, Recipient, a) : a \in Amounts}
PermitItems ==
  {PermitBatch(User1, a, n, sg) :
     a \in Amounts, n \in 0..1, sg \in {User1, Account3}}
AuthNonces == {"nonce-1", "nonce-2"}
AuthItems ==
  {AuthBatch(User1, Recipient, v, n, sg) :
     v \in Amounts, n \in AuthNonces, sg \in {User1, Account3}}

\* the transactions of the model: every function, from each account
ContractCalls ==
  {Call("executeBatchSweep", c, bs, "", "") :
     c \in Accounts, bs \in SeqsUpTo(SweepItems, MaxBatch)}
  \cup {Call("executeBatchPermitSweep", c, bs, Recipient, "") :
     c \in Accounts, bs \in SeqsUpTo(PermitItems, MaxBatch)}
  \cup {Call("executeBatchAuthSweep", c, bs, "", "") :
     c \in Accounts, bs \in SeqsUpTo(AuthItems, MaxBatch)}
  \cup {Call("sweepAllEth", c, <<>>, r, "") :
     c \in Accounts, r \in {Recipient, Rejector}}
  \cup {Call("sweepAllTokens", c, <<>>, Recipient, Erc20) : c \in Accounts}
  \cup {Call("transferOwnership", c, <<>>, a, "") : c \in Accounts, a \in Accounts}
  \cup {Call("renounceOwnership", c, <<>>, "", "") : c \in Accounts}

\* an account sends a transaction to the contract
Send ==
  /\ evm.pending = NoCall
  /\ evm.last = NoReceipt
  /\ \E call \in ContractCalls :
       evm' = [evm EXCEPT !.pending = call, !.last = NoReceipt]
  /\ UNCHANGED <<chain, strategyCache, ctx, opts, pc, x, results, u, ev, faults, ret, calls, publicClientCache, units>>

\* the pending transaction is mined: its effects stay if it returned and are
\* undone if it reverted
Mine(r) ==
  evm' = [evm EXCEPT !.w = IF r.ok THEN r.w ELSE @,
                     !.pending = NoCall,
                     !.last = [call |-> evm.pending, ok |-> r.ok]]

executeBatchSweep ==
  /\ evm.pending.fn = "executeBatchSweep"
  /\ Mine(IF ~onlyOwner(evm.pending.caller) THEN Reverts(evm.w)
          ELSE sweepLoop(evm.w, evm.pending.batches))
  /\ UNCHANGED <<chain, strategyCache, ctx, opts, pc, x, results, u, ev, faults, ret, calls, publicClientCache, units>>

executeBatchPermitSweep ==
  /\ evm.pending.fn = "executeBatchPermitSweep"
  /\ Mine(IF ~onlyOwner(evm.pending.caller) THEN Reverts(evm.w)
          ELSE permitLoop(evm.w, evm.pending.batches, evm.pending.recipient))
  /\ UNCHANGED <<chain, strategyCache, ctx, opts, pc, x, results, u, ev, faults, ret, calls, publicClientCache, units>>

executeBatchAuthSweep ==
  /\ evm.pending.fn = "executeBatchAuthSweep"
  /\ Mine(authLoop(evm.w, evm.pending.batches))
  /\ UNCHANGED <<chain, strategyCache, ctx, opts, pc, x, results, u, ev, faults, ret, calls, publicClientCache, units>>

sweepAllEth ==
  /\ evm.pending.fn = "sweepAllEth"
  /\ LET balance == evm.w.eth[This] IN
     Mine(IF ~onlyOwner(evm.pending.caller) \/ ~(balance > 0) THEN Reverts(evm.w)
          ELSE ethCall(evm.w, evm.pending.recipient, balance))
  /\ UNCHANGED <<chain, strategyCache, ctx, opts, pc, x, results, u, ev, faults, ret, calls, publicClientCache, units>>

sweepAllTokens ==
  /\ evm.pending.fn = "sweepAllTokens"
  /\ LET balance == evm.w.tok[This] IN
     Mine(IF ~onlyOwner(evm.pending.caller) \/ ~(balance > 0) THEN Reverts(evm.w)
          ELSE safeTransfer(evm.w, evm.pending.recipient, balance))
  /\ UNCHANGED <<chain, strategyCache, ctx, opts, pc, x, results, u, ev, faults, ret, calls, publicClientCache, units>>

\* revert("Owner is immutable")
transferOwnership ==
  /\ evm.pending.fn = "transferOwnership"
  /\ Mine(Reverts(evm.w))
  /\ UNCHANGED <<chain, strategyCache, ctx, opts, pc, x, results, u, ev, faults, ret, calls, publicClientCache, units>>

renounceOwnership ==
  /\ evm.pending.fn = "renounceOwnership"
  /\ Mine(Reverts(evm.w))
  /\ UNCHANGED <<chain, strategyCache, ctx, opts, pc, x, results, u, ev, faults, ret, calls, publicClientCache, units>>

\* the sender has taken the receipt of its transaction
TakeReceipt ==
  /\ evm.pending = NoCall
  /\ evm.last # NoReceipt
  /\ evm' = [evm EXCEPT !.last = NoReceipt]
  /\ UNCHANGED <<chain, strategyCache, ctx, opts, pc, x, results, u, ev, faults, ret, calls, publicClientCache, units>>

\* the contract is deployed with either account as its owner
ContractInit ==
  /\ Called(MkOpts(Text0, TextHex(HotWallet), "anvil", "TKN", AmountAll, NoStrategy, FALSE),
            MkCtx(NoAccount, "none", "auto"),
            MkChain(Same(MaxNativeK), Same(MaxBal), 1, FALSE, FALSE),
            EmptyCache)
  /\ pc = "idle"
  /\ x = NoLocals
  /\ results = <<>>
  /\ u = FreshUnit
  /\ ev = {}
  /\ faults = 0
  /\ ret = <<>>
  /\ calls = NoCalls
  /\ publicClientCache = {}
  /\ units = <<>>
  /\ \E initialOwner \in Accounts : evm = Deployed(initialOwner)

ContractNext ==
  \/ Send
  \/ executeBatchSweep
  \/ executeBatchPermitSweep
  \/ executeBatchAuthSweep
  \/ sweepAllEth
  \/ sweepAllTokens
  \/ transferOwnership
  \/ renounceOwnership
  \/ TakeReceipt

ContractSpec == ContractInit /\ [][ContractNext]_vars

(***************************************************************************)
(* Properties                                                              *)
(***************************************************************************)
SubmitEvents == {"submit:send", "submit:transfer", "submit:permit", "submit:authorize"}
SignEvents == {"signer", "sign"} \cup SubmitEvents
DetectionEvents == {"detect", "getChainId", "cacheGet", "cacheSet", "probe3009", "probe2612"}
ProbeEvents == {"getChainId", "cacheGet", "cacheSet", "probe3009", "probe2612"}

\* the transactions submitted by unit n
TxsOf(n) == {i \in DOMAIN chain.txs : chain.txs[i].unit = n}

\* a unit is running
InUnit == pc \notin {"idle", "start", "symbol", "done"}

\* C1: a unit whose computed transfer amount is zero or above the balance it
\* read fails with InsufficientBalance, and by then it has obtained no signer,
\* signed nothing and submitted nothing.
C1_InsufficientBeforeSigning ==
  /\ \A i \in DOMAIN results :
       LET r == results[i] IN
       ("amount" \in r.ev
          /\ (r.locals.transferAmount = 0 \/ r.locals.transferAmount > r.locals.balance))
       => /\ ~r.success
          /\ r.code = TRANSFER_INSUFFICIENT_BALANCE
          /\ r.ev \cap SignEvents = {}
          /\ TxsOf(r.unit) = {}
  /\ (InUnit /\ "amount" \in ev
        /\ (u.transferAmount = 0 \/ u.transferAmount > u.balance))
     => pc = "check" /\ ev \cap SignEvents = {} /\ TxsOf(k) = {}

C1_Witness ==
  \E i \in DOMAIN results :
    /\ results[i].code = TRANSFER_INSUFFICIENT_BALANCE
    /\ results[i].locals.transferAmount > results[i].locals.balance
    /\ results[i].locals.balance > 0

\* C2: a dry-run unit obtains no signer, signs nothing, reads no token nonce
\* and submits nothing; it only reads the balance (and the gas price for a
\* native sweep-all) and detects the strategy; it fails only for an
\* insufficient balance or a failed read, never for a missing signer.
DryRunEvents == {"getBalance", "getGasPrice", "amount", "fault"} \cup DetectionEvents

C2_DryRunTouchesNothing ==
  opts.dryRun =>
    /\ chain.txs = <<>>
    /\ InUnit => /\ ev \subseteq DryRunEvents
                 /\ "getGasPrice" \in ev => isNative /\ opts.amount.all
                 /\ u.account = NoAccount
    /\ \A i \in DOMAIN results :
         LET r == results[i] IN
         /\ r.ev \subseteq DryRunEvents
         /\ "getGasPrice" \in r.ev => isNative /\ opts.amount.all
         /\ r.locals.account = NoAccount
         /\ ~r.success => \/ r.code = TRANSFER_INSUFFICIENT_BALANCE
                          \/ r.code = TRANSFER_FAILED /\ "fault" \in r.ev

C2_Witness ==
  /\ opts.dryRun
  /\ ctx.signerAccount = NoAccount
  /\ ctx.addressContext = "none"
  /\ \E i \in DOMAIN results :
       results[i].success /\ "probe3009" \in results[i].ev

\* C3: a Success carries the sentinel hash exactly when dryRun was requested;
\* otherwise its hash is that of a transaction the same unit submitted.
C3_HashSentinelIffDryRun ==
  \A i \in DOMAIN results :
    LET r == results[i] IN
    r.success =>
      /\ (r.hash = DryRunHash) <=> opts.dryRun
      /\ ~opts.dryRun => r.hash \in TxsOf(r.unit)

C3_Witness ==
  \E i \in DOMAIN results :
    /\ results[i].success
    /\ ~opts.dryRun
    /\ results[i].strategy = "eip2612"
    /\ results[i].hash \in TxsOf(i)

\* C4: for a from-specification that expands to n > 1 addresses the returned
\* value holds one outcome for each of the n addresses.
C4_AllOutcomesReturned ==
  (pc = "done" /\ Len(x.fromAddresses) > 1) =>
    /\ Len(ret) = Len(x.fromAddresses)
    /\ \A i \in DOMAIN ret : ret[i].from = x.fromAddresses[i]

\* C5: every resolved source address is attempted: when the call has
\* returned, each address has its own outcome, whatever became of the units
\* before it, and the call does not return before that.
C5_EverySourceAttempted ==
  /\ Len(results) <= Len(x.fromAddresses)
  /\ (pc = "done" /\ x.fromAddresses # <<>>) =>
       /\ Len(results) = Len(x.fromAddresses)
       /\ \A i \in DOMAIN results :
            /\ results[i].from = x.fromAddresses[i]
            /\ results[i].unit = i
            /\ "getBalance" \in results[i].ev

C5_Witness ==
  /\ pc = "done"
  /\ Len(results) > 1
  /\ ~results[1].success
  /\ results[1].code = TRANSFER_FAILED
  /\ results[2].success

\* C6: the source indices of an IndexList or Range request are strictly
\* increasing, so no index is processed by two units.
C6_IndicesStrictlyIncreasing ==
  (pc # "start" /\ parseAddressSpec(opts.from).type \in {"indices", "range"}) =>
    \A i, j \in DOMAIN x.fromAddresses :
      i < j => x.fromAddresses[i].identifier.n < x.fromAddresses[j].identifier.n

\* C7: when the permit transaction went through and the transfer after it
\* failed, nothing is retried and the unit ends in a TransferFailed whose
\* content tells that the approval succeeded; that is, it differs from what
\* a failed plain transfer reports.
PlainTransferFailure == "rpc: submit:transfer"

C7_ApprovalFailureIsDistinct ==
  \A i \in DOMAIN results :
    LET r == results[i] IN
    ("submit:permit" \in r.ev /\ "submit:transfer" \in r.ev /\ ~r.success
       /\ \E h \in TxsOf(r.unit) : chain.txs[h].kind = "permit")
    => /\ r.code = TRANSFER_FAILED
       /\ Cardinality(TxsOf(r.unit)) = 1
       /\ r.message # PlainTransferFailure

\* C8: a unit with strategy Auto on an authorization-capable token, whose
\* source holds the tokens and no native funds, succeeds.
C8_GaslessAuthorizationSucceeds ==
  \A i \in DOMAIN results :
    LET r == results[i] IN
    (/\ ~opts.dryRun
     /\ opts.strategy = "auto"
     /\ ~isNative
     /\ chain.caps.eip3009
     /\ r.strategy = NoStrategy \/ r.strategy = "eip3009"
     /\ "submit:authorize" \in r.ev
     /\ "fault" \notin r.ev
     /\ r.locals.native0 = 0
     /\ r.locals.account = r.from.address
     /\ r.locals.transferAmount <= r.locals.balance)
    => r.success

\* C9: on a cache miss detectStrategy returns eip3009 whenever the
\* authorization probe succeeded, eip2612 only when that probe failed and the
\* permit probe succeeded, and legacy only when both failed.
Detected(l) ==
  /\ l.p3009 = "yes" => l.strategy = "eip3009"
  /\ l.strategy = "eip2612" <=> (l.p3009 = "no" /\ l.p2612 = "yes")
  /\ l.strategy = "legacy" <=> (l.p3009 = "no" /\ l.p2612 = "no")

ForcedConfig ==
  /\ ~isNative
  /\ getTokenConfig(ctx.tokenCfg, x.symbol).present
  /\ getTokenConfig(ctx.tokenCfg, x.symbol).strategy # "auto"

C10_NoProbeWhenForced ==
  ForcedConfig =>
    /\ (InUnit /\ "detect" \in ev) =>
         /\ u.strategy = getTokenConfig(ctx.tokenCfg, x.symbol).strategy
         /\ ev \cap ProbeEvents = {}
    /\ \A i \in DOMAIN results :
         "detect" \in results[i].ev =>
           /\ results[i].locals.strategy = getTokenConfig(ctx.tokenCfg, x.symbol).strategy
           /\ results[i].ev \cap ProbeEvents = {}

\* C10: for a non-native token whose configuration forces a strategy other
\* than auto, detectStrategy returns that strategy without reading the chain
\* id, probing, or reading or writing the cache.
C10_ForcedStrategyBypassesDetection ==
  /\ []C10_NoProbeWhenForced
  /\ [][(pc = "strategy" /\ ForcedConfig) => strategyCache' = strategyCache]_vars

C10_Witness ==
  /\ InUnit
  /\ "detect" \in ev
  /\ ForcedConfig
  /\ u.strategy = "eip2612"
  /\ chain.caps.eip3009
  /\ ~chain.caps.eip2612
  /\ strategyCache = [kk \in CacheKeys |-> "legacy"]

\* the request carries no strategy override: absent or auto
NoOverride == opts.strategy = NoStrategy \/ opts.strategy = "auto"

\* C11: with no strategy override, a token whose configuration entry sets a
\* strategy other than auto is executed with that strategy and without any
\* probe, whether the request names it by its configuration key or by its
\* address, and whatever symbol its contract reports.
ConfiguredForced ==
  /\ NoOverride
  /\ x.tokenAddress = ctx.tokenCfg.address
  /\ ctx.tokenCfg.strategy # "auto"

C11_ConfiguredStrategyIsUsed ==
  ConfiguredForced =>
    /\ (InUnit /\ "detect" \in ev) =>
         /\ u.strategy = ctx.tokenCfg.strategy
         /\ ev \cap ProbeEvents = {}
    /\ \A i \in DOMAIN results :
         "detect" \in results[i].ev =>
           /\ results[i].locals.strategy = ctx.tokenCfg.strategy
           /\ results[i].ev \cap ProbeEvents = {}

\* a unit that has got past the choice of its strategy
StrategyChosen == InUnit /\ pc \notin {"balance", "gasprice", "amount", "check", "strategy"}

\* C12: with a strategy override other than auto the unit uses the override
\* and the detector is not invoked, whatever the token's configuration says;
\* with no override or auto the strategy comes from the detector.
C12_OverrideWinsOutright ==
  IF NoOverride
  THEN /\ StrategyChosen => "detect" \in ev
       /\ \A i \in DOMAIN results :
            results[i].success => "detect" \in results[i].ev
  ELSE /\ InUnit => ev \cap DetectionEvents = {}
       /\ StrategyChosen => u.strategy = opts.strategy
       /\ \A i \in DOMAIN results :
            /\ results[i].ev \cap DetectionEvents = {}
            /\ results[i].success => results[i].strategy = opts.strategy

C12_Witness ==
  /\ StrategyChosen
  /\ ~isNative
  /\ opts.strategy = "legacy"
  /\ getTokenConfig(ctx.tokenCfg, x.symbol).strategy = "eip2612"
  /\ u.strategy = "legacy"

C14_OtherStrategyUnsupported ==
  \A i \in DOMAIN results :
    LET r == results[i] IN
    (/\ ~opts.dryRun
     /\ "signer" \in r.ev
     /\ r.locals.strategy \notin {"legacy", "eip2612", "eip3009"})
    => /\ ~r.success
       /\ r.code = STRATEGY_UNSUPPORTED
       /\ TxsOf(r.unit) = {}

\* C15: for amount "all" a native unit computes B - 2*P*21000 when that is
\* positive and fails with InsufficientBalance when it is not; a token unit
\* computes its whole balance and fails with InsufficientBalance when that
\* is zero.
SweepAllExpected(balance) ==
  IF isNative THEN balance - 2 * chain.gasPrice * 21000 ELSE balance

C15_SweepAllAmount ==
  opts.amount.all =>
    /\ (InUnit /\ "amount" \in ev) =>
          IF SweepAllExpected(u.balance) > 0
          THEN u.transferAmount = SweepAllExpected(u.balance)
          ELSE pc = "check"
    /\ \A i \in DOMAIN results :
          LET r == results[i] IN
          "amount" \in r.ev =>
            IF SweepAllExpected(r.locals.balance) > 0
            THEN /\ r.locals.transferAmount = SweepAllExpected(r.locals.balance)
                 /\ r.code # TRANSFER_INSUFFICIENT_BALANCE
                 /\ r.success => r.amount = SweepAllExpected(r.locals.balance)
            ELSE /\ ~r.success
                 /\ r.code = TRANSFER_INSUFFICIENT_BALANCE

C15_Witness ==
  \E i \in DOMAIN results :
    /\ isNative
    /\ opts.amount.all
    /\ ~opts.dryRun
    /\ results[i].success
    /\ results[i].locals.balance = 3 * chain.gasPrice * 21000
    /\ results[i].amount = chain.gasPrice * 21000

\* C16: for a token that supports plain transfer only and a source, other
\* than the destination, that holds b > 0 tokens, can pay the gas and signs
\* with its own key, a request for "all" that is answered by the chain ends
\* in Success with strategy legacy and raw amount b; the destination then
\* holds exactly b more tokens and the source exactly b less.
PlainOnly ==
  /\ ~isNative
  /\ ~chain.caps.eip3009
  /\ ~chain.caps.eip2612
  /\ NoOverride
  /\ getTokenConfig(ctx.tokenCfg, x.symbol).strategy \in {"auto", "legacy"}
  /\ \A kk \in DOMAIN strategyCache : strategyCache[kk] = "legacy"

ReferenceStrategy(done) ==
  IF ~NoOverride THEN opts.strategy
  ELSE IF isNative THEN "legacy"
  ELSE IF getTokenConfig(ctx.tokenCfg, x.symbol).strategy # "auto"
    THEN getTokenConfig(ctx.tokenCfg, x.symbol).strategy
  ELSE IF "cacheSet" \notin done
    THEN strategyCache[getCacheKey(x.tokenAddress, ChainId)]
  ELSE IF chain.caps.eip3009 THEN "eip3009"
  ELSE IF chain.caps.eip2612 THEN "eip2612"
  ELSE "legacy"

ReferenceAmount(l) ==
  IF ~opts.amount.all THEN parseUnits(opts.amount, x.decimals)
  ELSE IF ~isNative THEN l.balance
  ELSE IF l.balance > 2 * chain.gasPrice * 21000
    THEN l.balance - 2 * chain.gasPrice * 21000
  ELSE 0

C17_DryRunMatchesRealRun ==
  /\ (StrategyChosen /\ pc \notin {"chainid", "probe"} /\ "fault" \notin ev) =>
        /\ u.strategy = ReferenceStrategy(ev)
        /\ u.transferAmount = ReferenceAmount(u)
  /\ \A i \in DOMAIN results :
        LET r == results[i] IN
        (r.success /\ "fault" \notin r.ev) =>
          /\ r.strategy = ReferenceStrategy(r.ev)
          /\ r.amount = ReferenceAmount(r.locals)

C17_Witness ==
  \E i \in DOMAIN results :
    /\ opts.dryRun
    /\ results[i].success
    /\ NoOverride
    /\ "cacheSet" \in results[i].ev
    /\ results[i].strategy = "eip3009"
    /\ ~opts.amount.all
    /\ results[i].amount = 1

\* a direct call that ran its capability probes
Probed(q) == q.p3009 # "pending" \/ q.p2612 # "pending"

\* C18: a detectStrategy call made right after another one for the same
\* chain and token, with no forced strategy, no clear and no other call in
\* between, runs no probe and returns what the first call returned, also
\* when the token's capabilities have changed meanwhile.
C18_SecondCallAnsweredFromCache ==
  \A c \in Callers :
    LET q == calls.proc[c] IN
    q.after # NoStrategy =>
      /\ q.pc \in {"chainid", "returned"}
      /\ ~Probed(q)
      /\ q.pc = "returned" => q.result = q.after

C18_Witness ==
  \E c \in Callers :
    /\ calls.proc[c].pc = "returned"
    /\ calls.proc[c].after = "eip3009"
    /\ calls.proc[c].result = "eip3009"
    /\ ~chain.caps.eip3009

\* the cache holds detected strategies only
C19_CacheHoldsConcrete ==
  /\ \A kk \in DOMAIN strategyCache : strategyCache[kk] \in DetectedStrategies
  /\ \A c \in Callers :
       (calls.proc[c].pc = "returned" /\ Probed(calls.proc[c])) =>
         calls.proc[c].result \in DetectedStrategies

\* C19: under every interleaving of concurrent detectStrategy calls and
\* clears of the cache, every cache entry is one of eip3009, eip2612, legacy,
\* never auto and never eip7702; a call that missed the cache leaves its
\* probe round only by returning such a strategy, with both probes done,
\* whatever other calls do at the same time.
C19_ConcurrentDetectionKeepsCache ==
  /\ []C19_CacheHoldsConcrete
  /\ [][\A c \in Callers :
          (calls.proc[c].pc = "probe" /\ calls'.proc[c].pc # "probe") =>
            /\ calls'.proc[c].pc = "returned"
            /\ calls'.proc[c].p3009 # "pending"
            /\ calls'.proc[c].p2612 # "pending"
            /\ calls'.proc[c].result \in DetectedStrategies
            /\ strategyCache' = [kk \in {getCacheKey(TokenAddress, ChainId)} |->
                                   calls'.proc[c].result]]_vars

C19_Witness ==
  /\ calls.proc[1].pc = "returned"
  /\ calls.proc[2].pc = "returned"
  /\ Probed(calls.proc[1])
  /\ Probed(calls.proc[2])
  /\ calls.proc[1].result = "eip3009"
  /\ calls.proc[2].result = "legacy"
  /\ strategyCache = [kk \in {getCacheKey(TokenAddress, ChainId)} |-> "eip3009"]

\* what a unit that probed has decided
C20_ProbedUnitDecides ==
  /\ (InUnit /\ "cacheSet" \in ev) =>
        /\ u.p3009 \in {"yes", "no"}
        /\ u.p2612 \in {"yes", "no"}
        /\ u.strategy \in DetectedStrategies
        /\ (u.p3009 = "no" /\ u.p2612 = "no") => u.strategy = "legacy"
        /\ strategyCache[getCacheKey(x.tokenAddress, ChainId)] = u.strategy
  /\ \A i \in DOMAIN results :
        ("probe3009" \in results[i].ev \/ "probe2612" \in results[i].ev) =>
          "cacheSet" \in results[i].ev

C21_NativeCallReturnsLegacy ==
  \A c \in Callers :
    calls.proc[c].token = NATIVE_TOKEN_ADDRESS =>
      /\ calls.proc[c].pc = "returned"
      /\ calls.proc[c].result = "legacy"
      /\ ~Probed(calls.proc[c])

\* C21: detectStrategy for the native asset returns legacy whatever strategy
\* the token configuration forces; it returns at once, with no chain call
\* and no probe, and leaves the strategy cache as it was.
C21_NativeIsAlwaysPlain ==
  /\ []C21_NativeCallReturnsLegacy
  /\ [][\A c \in Callers :
          (calls'.proc[c] # calls.proc[c] /\ calls'.proc[c].token = NATIVE_TOKEN_ADDRESS) =>
            /\ ~InFlight(c)
            /\ strategyCache' = strategyCache
            /\ chain' = chain]_vars

C21_Witness ==
  \E c \in Callers :
    /\ calls.proc[c].token = NATIVE_TOKEN_ADDRESS
    /\ calls.proc[c].config = "eip2612"
    /\ calls.proc[c].result = "legacy"
    /\ strategyCache # EmptyCache


\* the request names a chain the configuration does not have, a chain whose
\* configuration says enabled = false, a token it does not have, or (outside
\* a dry run) a strategy that is none of the executable ones
ExpectedFailureCondition ==
  \/ toCaip2ChainId(opts.chain) = NoChain
  \/ ~ctx.chainEnabled
  \/ ~resolveTokenAddress(ctx.tokenCfg, opts.token).ok
  \/ ~opts.dryRun /\ opts.strategy = "eip7702"

\* C22: executeTransfer never throws for an expected failure condition: a
\* finished request that named an unknown or disabled chain, an unknown token
\* or an unsupported strategy has returned outcomes, each of them a Failure
\* that carries the from/to identifiers, an error kind and a message.
C22_ExpectedFailuresAreReturned ==
  (pc = "done" /\ ExpectedFailureCondition) =>
    /\ ret # <<>>
    /\ \A i \in DOMAIN ret :
         /\ ~ret[i].success
         /\ ret[i].to.identifier = opts.to
         /\ \/ ret[i].from.identifier = opts.from
            \/ \E j \in DOMAIN x.fromAddresses :
                 ret[i].from.identifier = x.fromAddresses[j].identifier
         /\ ret[i].code # "" /\ ret[i].message # ""

\* C24: a request on a configured chain whose configuration says
\* enabled = false makes no balance read or other chain call and ends as one
\* Failure of kind ChainDisabled, whatever clients earlier requests of the
\* process left in the client cache.
C24_DisabledChainFails ==
  (~ctx.chainEnabled /\ toCaip2ChainId(opts.chain) # NoChain) =>
    /\ pc \in {"start", "done"}
    /\ results = <<>> /\ ev = {}
    /\ pc = "done" =>
         /\ Len(ret) = 1
         /\ ~ret[1].success
         /\ ret[1].code = CHAIN_DISABLED


\* neither a directly supplied signer nor a seed phrase or extended private
\* key: no address context at all, or one that holds an extended public key
NoSignerSource ==
  ctx.signerAccount = NoAccount /\ ctx.addressContext \in {"none", "xpub"}

\* C23: in a request that is not a dry run and has neither a directly
\* supplied signer nor a private seed source (the extended-public-key-only
\* case included), no unit succeeds, no transaction is submitted, and every
\* unit that got as far as its strategy fails with WalletKeyNotFound.
C23_NoSignerSourceFails ==
  (NoSignerSource /\ ~opts.dryRun) =>
    /\ chain.txs = <<>>
    /\ \A i \in DOMAIN results :
         /\ ~results[i].success
         /\ results[i].locals.strategy # NoStrategy =>
              results[i].code = WALLET_KEY_NOT_FOUND

\* a unit of a request that has only an extended public key has failed with
\* WalletKeyNotFound
C23_Witness ==
  /\ ~opts.dryRun
  /\ ctx.signerAccount = NoAccount /\ ctx.addressContext = "xpub"
  /\ results # <<>>
  /\ results[1].code = WALLET_KEY_NOT_FOUND
  /\ results[1].locals.strategy # NoStrategy
  /\ chain.txs = <<>>


\* the units past their balance read whose outcome is not yet there
InFlightUnits == {i \in DOMAIN units : units[i] = "flight"}

\* C25: within one request the number of units in flight (past their balance
\* read, not yet confirmed or failed) never exceeds options.parallel, and is
\* at most one when options.parallel is absent.
C25_UnitsInFlightBounded ==
  Cardinality(InFlightUnits) <= (IF opts.parallel.given THEN opts.parallel.n ELSE 1)

\* a request of several sources without a limit: one unit is in flight, one
\* has its outcome, one has not begun
C25_Witness ==
  /\ ~opts.parallel.given
  /\ \E i, j, l \in DOMAIN units :
       /\ i < j /\ j < l
       /\ Settled(i) /\ units[j] = "flight" /\ units[l] = "pending"


\* a segment that is a bare integer or a pair of integers
Numeric(sg) == sg.exact /\ ~sg.more /\ sg.lo # NaN /\ sg.hi # NaN
Denoted(segs) ==
  UNION {IF segs[i].dash THEN segs[i].lo..segs[i].hi ELSE {segs[i].lo} : i \in DOMAIN segs}
Increasing(xs) == \A i, j \in DOMAIN xs : i < j => xs[i] < xs[j]

\* C26: parseRange returns, for a text whose segments are bare integers or
\* start-end pairs with start <= end, the strictly increasing sequence of the
\* union of the denoted indices, and fails with InvalidRange when some
\* segment is not numeric or has start > end.
C26_ExpandRange ==
  pc = "parseRange" =>
    LET segs == opts.from.segs
        r == ret[1]
    IN IF \A i \in DOMAIN segs :
            Numeric(segs[i]) /\ (segs[i].dash => segs[i].lo <= segs[i].hi)
       THEN r.ok /\ Increasing(r.value) /\ Range(r.value) = Denoted(segs)
       ELSE ~r.ok /\ r.code = ADDRESS_RANGE_INVALID


\* the indices an index-shaped text names, in the order of the answer: as
\* listed for "n" and "n,m,...", increasing for a range
NamedIndices(text) ==
  IF \E i \in DOMAIN text.segs : text.segs[i].dash
  THEN SortSet(Denoted(text.segs))
  ELSE [i \in DOMAIN text.segs |-> text.segs[i].lo]

\* C27: resolveToAddresses of an index, index-list or range specification
\* fails with the resolver-required error and returns no address when there
\* is no resolver; with a resolver each pair of its answer is an index's
\* decimal string and the resolver's address for it, one pair per index; an
\* address or a known label gives exactly one pair.
C27_ResolveNeedsResolver ==
  pc = "resolveToAddresses" =>
    LET text == opts.from
        r == ret[1]
    IN IF text.shape = "list"
       THEN IF ctx.addressContext = "none"
            THEN /\ ~r.ok /\ r.value = <<>>
                 /\ r.code = VALIDATION_ERROR
                 /\ r.message = "Address resolver required"
            ELSE (\A i \in DOMAIN text.segs : text.segs[i].lo <= text.segs[i].hi) =>
                   /\ r.ok
                   /\ Len(r.value) = Len(NamedIndices(text))
                   /\ \A i \in DOMAIN r.value :
                        /\ r.value[i].identifier = IdDec(NamedIndices(text)[i])
                        /\ r.value[i].address = generateAddress(NamedIndices(text)[i])
       ELSE (text.shape = "hex" \/ text.s \in DOMAIN wallets) =>
              r.ok /\ Len(r.value) = 1

\* a range was resolved without a resolver; the answer is the error
C27_Witness ==
  /\ pc = "resolveToAddresses"
  /\ opts.from = TextList(<<Seg(0, MaxIndex, TRUE)>>)
  /\ ctx.addressContext = "none"
  /\ ~ret[1].ok


\* a text that is a word and not a label of the wallet registry
UnknownLabel(text) == text.shape = "word" /\ text.s \notin DOMAIN wallets

\* C28: a text that is not index-, address-, list- or range-shaped parses to
\* a Label specification whether or not the registry has it; an unknown label
\* fails when it is resolved: the request runs no unit and returns one
\* Failure, with the label-not-found error when the chain itself is usable.
C28_UnknownLabelFailsAtUse ==
  (UnknownLabel(opts.from) \/ UnknownLabel(opts.to)) =>
    /\ UnknownLabel(opts.from) => parseAddressSpec(opts.from).type = "label"
    /\ UnknownLabel(opts.to) => parseAddressSpec(opts.to).type = "label"
    /\ pc \in {"start", "done"}
    /\ results = <<>> /\ chain.txs = <<>>
    /\ pc = "done" =>
         /\ Len(ret) = 1
         /\ ~ret[1].success
         /\ ret[1].from.identifier = opts.from
         /\ (UnknownLabel(opts.from) /\ toCaip2ChainId(opts.chain) # NoChain
               /\ ctx.chainEnabled) =>
              ret[1].code = ADDRESS_LABEL_NOT_FOUND

\* a request whose source is an unknown label has returned the
\* label-not-found Failure
C28_Witness ==
  /\ pc = "done"
  /\ UnknownLabel(opts.from)
  /\ results = <<>>
  /\ Len(ret) = 1
  /\ ret[1].code = ADDRESS_LABEL_NOT_FOUND


RECURSIVE SumOf(_)
SumOf(xs) == IF xs = <<>> THEN 0 ELSE Head(xs) + SumOf(Tail(xs))

\* what the items of a batch take from and bring to an account
EthOut(c, a) ==
  SumOf([i \in DOMAIN c.batches |->
           IF c.fn = "executeBatchSweep" /\ c.batches[i].token = ETHER /\ a = This
           THEN c.batches[i].amount ELSE 0])
EthIn(c, a) ==
  SumOf([i \in DOMAIN c.batches |->
           IF c.fn = "executeBatchSweep" /\ c.batches[i].token = ETHER
              /\ c.batches[i].recipient = a
           THEN c.batches[i].amount ELSE 0])
TokensOut(c, a) ==
  SumOf([i \in DOMAIN c.batches |->
           LET b == c.batches[i] IN
           IF c.fn = "executeBatchSweep" THEN (IF b.token # ETHER /\ a = This THEN b.amount ELSE 0)
           ELSE IF c.fn = "executeBatchPermitSweep" THEN (IF b.owner = a THEN b.amount ELSE 0)
           ELSE (IF b.from = a THEN b.value ELSE 0)])
TokensIn(c, a) ==
  SumOf([i \in DOMAIN c.batches |->
           LET b == c.batches[i] IN
           IF c.fn = "executeBatchSweep"
           THEN (IF b.token # ETHER /\ b.recipient = a THEN b.amount ELSE 0)
           ELSE IF c.fn = "executeBatchPermitSweep" THEN (IF c.recipient = a THEN b.amount ELSE 0)
           ELSE (IF b.to = a THEN b.value ELSE 0)])

\* the world in which every item of the batch has taken place
AllItemsDone(w, c) ==
  [eth |-> [a \in EthHolders |-> w.eth[a] - EthOut(c, a) + EthIn(c, a)],
   tok |-> [a \in TokenHolders |-> w.tok[a] - TokensOut(c, a) + TokensIn(c, a)],
   allowance |-> IF c.fn = "executeBatchPermitSweep" /\ c.batches # <<>>
                 THEN 0 ELSE w.allowance,
   nonces |-> IF c.fn = "executeBatchPermitSweep"
              THEN w.nonces + Len(c.batches) ELSE w.nonces,
   auths |-> IF c.fn = "executeBatchAuthSweep"
             THEN w.auths \cup {c.batches[i].nonce : i \in DOMAIN c.batches}
             ELSE w.auths]

\* no item of the batch is one that cannot take place: ETH for the rejecting
\* contract, a signature of somebody else, an authorization already used
NoBadItem(w, c) ==
  \A i \in DOMAIN c.batches :
    LET b == c.batches[i] IN
    IF c.fn = "executeBatchSweep" THEN ~(b.token = ETHER /\ b.recipient = Rejector)
    ELSE IF c.fn = "executeBatchPermitSweep" THEN b.signer = b.owner
    ELSE /\ b.signer = b.from
         /\ b.nonce \notin w.auths
         /\ \A j \in DOMAIN c.batches : j # i => c.batches[j].nonce # b.nonce

BatchFns == {"executeBatchSweep", "executeBatchPermitSweep", "executeBatchAuthSweep"}

\* C29: each call of executeBatchSweep, executeBatchPermitSweep and
\* executeBatchAuthSweep is all or nothing: it returns and every item of the
\* batch has taken place, or it reverts and no balance, allowance, permit
\* nonce or authorization has changed.
C29_BatchesAreAtomic ==
  [][(evm.pending.fn \in BatchFns /\ evm'.pending = NoCall) =>
       /\ evm'.last.call = evm.pending
       /\ \/ ~evm'.last.ok /\ evm'.w = evm.w
          \/ /\ evm'.last.ok
             /\ NoBadItem(evm.w, evm.pending)
             /\ evm'.w = AllItemsDone(evm.w, evm.pending)]_vars

\* the owner's batch of two ETH items, the first of which could have been
\* paid and the second of which goes to the rejecting contract, has reverted
\* and the first recipient has received nothing
C29_Witness ==
  /\ evm.last.call.fn = "executeBatchSweep"
  /\ evm.last.call.caller = evm.initialOwner
  /\ evm.last.call.batches =
       <<SweepBatch(ETHER, Recipient, 1), SweepBatch(ETHER, Rejector, 1)>>
  /\ ~evm.last.ok
  /\ evm.w.eth[This] = MaxHold
  /\ evm.w.eth[Recipient] = 0

OwnerOnlyFns == {"executeBatchSweep", "executeBatchPermitSweep", "sweepAllEth", "sweepAllTokens"}

\* C30: owner() is always the owner given at construction; transferOwnership
\* and renounceOwnership revert; executeBatchSweep, executeBatchPermitSweep,
\* sweepAllEth and sweepAllTokens revert and change nothing for a caller that
\* is not that owner; executeBatchAuthSweep of one authorization returns for
\* every caller exactly when the authorization is good.
C30_OwnerIsFixed ==
  /\ [](owner = evm.initialOwner)
  /\ [][(evm.pending # NoCall /\ evm'.pending = NoCall) =>
         LET c == evm.pending IN
         /\ c.fn \in {"transferOwnership", "renounceOwnership"} =>
              ~evm'.last.ok /\ evm'.w = evm.w /\ evm'.storedOwner = evm.storedOwner
         /\ (c.fn \in OwnerOnlyFns /\ c.caller # evm.initialOwner) =>
              ~evm'.last.ok /\ evm'.w = evm.w
         /\ (c.fn = "executeBatchAuthSweep" /\ Len(c.batches) = 1) =>
              (evm'.last.ok <=>
                 /\ c.batches[1].signer = c.batches[1].from
                 /\ c.batches[1].nonce \notin evm.w.auths
                 /\ evm.w.tok[c.batches[1].from] >= c.batches[1].value)]_vars

\* an account that is not the owner has called sweepAllEth for a recipient
\* that accepts ETH while the contract held ETH: the call has reverted
C30_Witness ==
  /\ evm.last.call.fn = "sweepAllEth"
  /\ evm.last.call.caller # evm.initialOwner
  /\ evm.last.call.recipient = Recipient
  /\ ~evm.last.ok
  /\ evm.w.eth[This] > 0

(***************************************************************************)
(* Confirmation of the submitted transactions                              *)
(***************************************************************************)
\* the transactions unit n has broadcast
UnitTxs(n) == {i \in DOMAIN chain.pool : chain.pool[i].tx.unit = n}

\* the outcome of the unit that ends in this step (results' # results)
Ended == results'[Len(results')]

\* C31: a non-dry-run unit returns Success only after every transaction it
\* submitted has been included in a block, the transfer that follows the
\* permit included
C31_SuccessAfterEveryConfirmation ==
  [][(results' # results /\ Ended.success /\ ~Ended.dryRun)
       => \A i \in UnitTxs(Ended.unit) : chain.pool[i].status # "pending"]_vars

\* C32: a unit whose submitted transaction is included with the status
\* reverted ends in a Failure with code TRANSFER_FAILED, and a unit returns
\* Success only when the transaction it waited for executed
C32_RevertedIsFailure ==
  [][(results' # results /\ ~Ended.dryRun /\ ~chain.automine) =>
       /\ (pc = "receipt" /\ chain.pool[u.txHash].status = "reverted")
            => ~Ended.success /\ Ended.code = TRANSFER_FAILED
       /\ Ended.success => chain.pool[Ended.hash].status = "success"]_vars

(***************************************************************************)
(* The signing identity                                                    *)
(***************************************************************************)
\* C33: in a unit that has signed or submitted anything, the account that
\* signs is the account of the unit's source address, the address whose
\* balance was read
C33_SignerIsSource ==
  (ev \cap (SignEvents \cup SubmitEvents) # {}) => u.account = cur.address

(***************************************************************************)
(* The permit nonce                                                        *)
(***************************************************************************)
\* the permit of the running unit has executed
PermitExecuted ==
  /\ "submit:permit" \in ev
  /\ IF chain.automine THEN TRUE ELSE chain.pool[u.txHash].status = "success"

\* the running unit has signed a permit whose nonce is not the owner's
\* current nonce, and not because its own permit has used it
StaleNonce ==
  /\ u.strategy = "eip2612"
  /\ pc \in {"permit", "transfer2", "receipt"}
  /\ u.signed.nonce # chain.nonces[u.signed.owner]
  /\ ~PermitExecuted

\* C34: a unit whose permit is signed with a nonce that is no longer the
\* owner's current nonce has signed it without error, and it ends in a
\* Failure with code TRANSFER_FAILED, never in Success
C34_StaleNonceFailsOnChain ==
  [][(results' # results /\ StaleNonce)
       => "sign" \in ev /\ ~Ended.success /\ Ended.code = TRANSFER_FAILED]_vars

(***************************************************************************)
(* Order of the balance check and the detection                            *)
(***************************************************************************)
\* the running unit has read its balance and computed an amount that is
\* positive and within the balance
BalanceChecked ==
  /\ {"getBalance", "amount"} \subseteq ev
  /\ u.transferAmount > 0
  /\ u.transferAmount <= u.balance

\* C35: the detection of a unit starts only after its balance check has
\* passed: a unit that has begun detection, and a step that writes the
\* strategy cache, has a checked balance, and a unit that ends with
\* InsufficientBalance has issued no detection call or probe
C35_DetectionAfterBalanceCheck ==
  /\ []((ev \cap DetectionEvents # {}) => BalanceChecked)
  /\ [][/\ strategyCache' # strategyCache => BalanceChecked
        /\ (results' # results /\ Ended.code = TRANSFER_INSUFFICIENT_BALANCE)
             => /\ Ended.ev \cap DetectionEvents = {}
                /\ strategyCache' = strategyCache]_vars

\* a first unit has failed with InsufficientBalance on a token whose strategy
\* is detected, and the next unit has probed and written the cache
C35_Witness ==
  /\ Len(results) = 1
  /\ results[1].code = TRANSFER_INSUFFICIENT_BALANCE
  /\ results[1].ev \cap DetectionEvents = {}
  /\ "cacheSet" \in ev

(***************************************************************************)
(* clearStrategyCache and the calls in flight                              *)
(***************************************************************************)
\* C36: the first detectStrategy call that starts after clearStrategyCache
\* for a token without forced strategy does not return from the cache a
\* strategy that was probed before the clear
C36_FreshProbeAfterClear ==
  [][\A c \in Callers :
       (/\ calls.proc[c].first
        /\ calls.proc[c].pc = "chainid"
        /\ calls'.proc[c].pc = "returned") => ~calls.stale]_vars

(***************************************************************************)
(* Specifications given as objects                                         *)
(***************************************************************************)
\* the addresses that the specification behind a text or an object denotes
Denotes(value) ==
  resolveToAddresses(IF value.shape = "object" THEN value.spec
                     ELSE parseAddressSpec(value),
                     ctx.addressContext # "none")

\* C37: a request whose source or destination is given as an AddressSpec
\* object has, when it returns, one unit for each address that resolving
\* the object yields, in that order, as for the equivalent text
C37_ObjectSpecIsUsedAsGiven ==
  (/\ pc = "done"
   /\ opts.from.shape = "object" \/ opts.to.shape = "object"
   /\ Denotes(opts.from).ok /\ Denotes(opts.to).ok)
    => /\ Len(results) = Len(Denotes(opts.from).value)
       /\ \A i \in DOMAIN results :
            /\ results[i].from.address = Denotes(opts.from).value[i].address
            /\ results[i].to.address = Denotes(opts.to).value[1].address

(***************************************************************************)
(* Decimals of a configured token                                          *)
(***************************************************************************)
\* C38: for the configured token, with decimals d, an explicit amount a is
\* converted to a * 10^d and reported so, whether the request names the
\* token by its symbol or by its contract address
C38_ConfiguredDecimalsAreUsed ==
  /\ ("amount" \in ev /\ ~opts.amount.all /\ x.tokenAddress = TokenAddress)
       => u.transferAmount = parseUnits(opts.amount, ctx.tokenCfg.decimals)
  /\ \A i \in DOMAIN results :
       (results[i].success /\ ~opts.amount.all /\ x.tokenAddress = TokenAddress)
         => results[i].amount = parseUnits(opts.amount, ctx.tokenCfg.decimals)

(***************************************************************************)
(* Termination                                                             *)
(***************************************************************************)
\* where the unit stands while the submission of each kind is still ahead
BeforeSubmit(e) ==
  IF e = "submit:send" THEN {"send"}
  ELSE IF e = "submit:permit" THEN {"permit"}
  ELSE IF e = "submit:authorize" THEN {"authorize"}
  ELSE {"transfer", "transfer2"}

\* C39: when every chain call returns or fails, the call returns, and by then
\* every unit it started has ended in Success or in a Failure with a code;
\* no transaction of a unit is submitted twice: a unit that has submitted a
\* transaction never stands before that submission again, and a step adds
\* at most one transaction, of a kind the unit has not submitted before
C39_CallReturnsWithoutRetry ==
  /\ <>(pc = "done")
  /\ [](pc = "done" =>
         /\ ret # <<>>
         /\ Len(results) <= Len(x.fromAddresses)
         /\ \A i \in DOMAIN results :
              /\ results[i].unit = i
              /\ results[i].success \/ results[i].code # "")
  /\ [](\A e \in SubmitEvents : e \in ev => pc \notin BeforeSubmit(e))
  /\ [][chain'.txs # chain.txs =>
          /\ Len(chain'.txs) = Len(chain.txs) + 1
          /\ \A h \in TxsOf(k) :
               chain.txs[h].kind # chain'.txs[Len(chain'.txs)].kind]_vars

\* the call has returned after two units: one confirmed with its transaction
\* submitted, one failed
C39_Witness ==
  /\ pc = "done"
  /\ Len(results) = 2
  /\ \E i \in DOMAIN results : results[i].success /\ TxsOf(i) # {}
  /\ \E i \in DOMAIN results : ~results[i].success

====
